---- MODULE Spec2Model ----
(***************************************************************************)
(* The resilient generation pipeline of readme-gen-pro (src/lib/ai-agent): *)
(* withExponentialBackoff, validateReadmeOutput, generateReadme and        *)
(* generateReadmeWithFallback, as a state machine of one request.          *)
(*                                                                         *)
(* Text is a sequence of one-character strings, so that the regular        *)
(* expressions, length tests and trims of the source are computed on       *)
(* characters.                                                             *)
(***************************************************************************)
EXTENDS Integers, Sequences, FiniteSets, TLC

\* ------------------------------------------------------------------ bounds

\* Math.random() is drawn from the Numbers nearest to r / RandRes, r < RandRes, and
\* the largest Number below 1.
RandRes == 1

\* maxRetries of a direct withExponentialBackoff call ranges over 0 .. MaxRetriesBound.
MaxRetriesBound == 3

\* A stream yields at most MaxFragments chunks.
MaxFragments == 3

\* A document given to validateReadmeOutput has up to MaxHeadings heading lines,
\* and up to MaxBare lines of a lone # with a line of text after each.
MaxHeadings == 2

MaxBare == 2

\* how many times buildSystemPrompt is called in a row
MaxBuilds == 2

\* ------------------------------------------------------- program constants

\* generateReadme: withExponentialBackoff(..., 3, 1000)
GenerateMaxRetries == 3
GenerateBaseDelay == 1000
\* validateReadmeOutput: markdown.length < 200, markdown.slice(0, 500)
MinLength == 200
MetaWindow == 500

\* ---------------------------------------------------------------- text

Repeat(c, n) == [i \in 1 .. n |-> c]

\* s.slice(a - 1, b) for 1-based inclusive a .. b
Slice(s, a, b) == IF a > b THEN << >> ELSE [i \in 1 .. (b - a + 1) |-> s[a + i - 1]]

UpperLetters ==
  << "A", "B", "C", "D", "E", "F", "G", "H", "I", "J", "K", "L", "M",
     "N", "O", "P", "Q", "R", "S", "T", "U", "V", "W", "X", "Y", "Z" >>

LowerLetters ==
  << "a", "b", "c", "d", "e", "f", "g", "h", "i", "j", "k", "l", "m",
     "n", "o", "p", "q", "r", "s", "t", "u", "v", "w", "x", "y", "z" >>

\* the case folding of a regular expression's i flag
Lower(c) ==
  IF \E i \in 1 .. 26 : UpperLetters[i] = c
  THEN LowerLetters[CHOOSE i \in 1 .. 26 : UpperLetters[i] = c]
  ELSE c

LowerAll(s) == [i \in 1 .. Len(s) |-> Lower(s[i])]

\* \s of a regular expression and of String.prototype.trim
IsSpace(c) == c \in {" ", "\n", "\t", "\r"}

\* a line terminator: what . does not match and what ^ and $ anchor on under m
IsLineTerminator(c) == c \in {"\n", "\r"}

\* sub occurs in s at position p
OccursAt(s, sub, p) ==
  /\ p >= 1
  /\ p + Len(sub) - 1 <= Len(s)
  /\ \A i \in 1 .. Len(sub) : s[p + i - 1] = sub[i]

\* String.prototype.includes
Includes(s, sub) == \E p \in 1 .. (Len(s) - Len(sub) + 1) : OccursAt(s, sub, p)

StartsWith(s, sub) == OccursAt(s, sub, 1)

EndsWith(s, sub) == OccursAt(s, sub, Len(s) - Len(sub) + 1)

\* String.prototype.trim
Trim(s) ==
  IF \A i \in 1 .. Len(s) : IsSpace(s[i]) THEN << >>
  ELSE LET lo == CHOOSE i \in 1 .. Len(s) :
                   ~IsSpace(s[i]) /\ \A j \in 1 .. (i - 1) : IsSpace(s[j])
           hi == CHOOSE i \in 1 .. Len(s) :
                   ~IsSpace(s[i]) /\ \A j \in (i + 1) .. Len(s) : IsSpace(s[j])
       IN  Slice(s, lo, hi)

Min(S) == CHOOSE x \in S : \A y \in S : x <= y

Max(S) == CHOOSE x \in S : \A y \in S : x >= y

\* The backquote character (U+0060). The lexer of the language reserves the
\* character itself, so the element that stands for it is spelled out.
Backquote == "BACKQUOTE"

FenceMarker == << Backquote, Backquote, Backquote >>

FenceMarkdownLine == FenceMarker \o << "m", "a", "r", "k", "d", "o", "w", "n", "\n" >>

FenceLine == FenceMarker \o << "\n" >>

FenceTail == << "\n" >> \o FenceMarker

\* the three .replace calls that strip one wrapping fenced block, then .trim()
StripFences(markdown) ==
  LET a == IF StartsWith(LowerAll(markdown), FenceMarkdownLine)
           THEN Slice(markdown, Len(FenceMarkdownLine) + 1, Len(markdown))
           ELSE markdown
      b == IF StartsWith(a, FenceLine) THEN Slice(a, Len(FenceLine) + 1, Len(a)) ELSE a
      c == IF EndsWith(b, FenceTail) THEN Slice(b, 1, Len(b) - Len(FenceTail)) ELSE b
  IN  Trim(c)

\* ------------------------------------------------- validateReadmeOutput

\* the number of # at p, p + 1, ..., counted up to 4 (one more than {1,3} takes)
HashRun(s, p) ==
  CHOOSE k \in 0 .. 4 :
    /\ \A i \in 0 .. (k - 1) : p + i <= Len(s) /\ s[p + i] = "#"
    /\ k = 4 \/ p + k > Len(s) \/ s[p + k] # "#"

\* the number of \s characters at p, p + 1, ...
SpaceRun(s, p) ==
  IF p > Len(s) THEN 0
  ELSE CHOOSE k \in 0 .. (Len(s) - p + 1) :
         /\ p + k > Len(s) \/ ~IsSpace(s[p + k])
         /\ \A i \in 0 .. (k - 1) : IsSpace(s[p + i])

\* the last position of the line that holds position q
LineEnd(s, q) ==
  CHOOSE e \in q .. Len(s) :
    /\ e = Len(s) \/ IsLineTerminator(s[e + 1])
    /\ \A i \in (q + 1) .. e : ~IsLineTerminator(s[i])

\* ^ under the m flag
AtLineStart(s, p) == p = 1 \/ IsLineTerminator(s[p - 1])

\* The last position of the match of /^#{1,3}\s+.+$/m that starts at p, 0 when
\* there is none: 1 to 3 #, then the longest run of \s that still leaves a
\* character for .+, which then runs to the end of its line.
HeaderMatchEnd(s, p) ==
  IF ~AtLineStart(s, p) THEN 0
  ELSE LET h == HashRun(s, p)
           w == SpaceRun(s, p + h)
           starts == {q \in (p + h + 1) .. (p + h + w) :
                         q <= Len(s) /\ ~IsLineTerminator(s[q])}
       IN  IF h < 1 \/ h > 3 \/ starts = {} THEN 0 ELSE LineEnd(s, Max(starts))

\* the number of matches a g-flag scan from p finds: each match starts at the
\* first position of M at or after the end of the one before
RECURSIVE HeaderScan(_, _, _)
HeaderScan(s, M, p) ==
  LET rest == {q \in M : q >= p}
  IN  IF rest = {} THEN 0 ELSE 1 + HeaderScan(s, M, HeaderMatchEnd(s, Min(rest)) + 1)

\* (markdown.match(/^#{1,3}\s+.+$/gm) || []).length
HeaderMatches(s) ==
  HeaderScan(s, {q \in 1 .. Len(s) : HeaderMatchEnd(s, q) > 0}, 1)

\* FenceMatches that counts every position a fence marker occurs at
FenceMatchesOverlapping(s) == Cardinality({q \in 1 .. Len(s) : OccursAt(s, FenceMarker, q)})

RECURSIVE FenceScan(_, _)
FenceScan(F, p) ==
  LET rest == {q \in F : q >= p}
  IN  IF rest = {} THEN 0 ELSE 1 + FenceScan(F, Min(rest) + Len(FenceMarker))

\* (markdown.match(/<fence>/g) || []).length: occurrences that do not overlap
FenceMatches(s) == FenceScan({q \in 1 .. Len(s) : OccursAt(s, FenceMarker, q)}, 1)

MetaPhrases ==
  { << "h", "e", "r", "e", " ", "i", "s" >>,
    << "i", " ", "h", "a", "v", "e", " ", "g", "e", "n", "e", "r", "a", "t", "e", "d" >>,
    << "i", "'", "v", "e", " ", "c", "r", "e", "a", "t", "e", "d" >>,
    << "b", "e", "l", "o", "w", " ", "i", "s" >> }

\* /here is|i have generated|i've created|below is/gi.test(markdown.slice(0, 500))
MetaCommentary(markdown) ==
  LET head == LowerAll(Slice(markdown, 1, IF Len(markdown) < MetaWindow
                                          THEN Len(markdown) ELSE MetaWindow))
  IN  \E ph \in MetaPhrases : Includes(head, ph)

TooShort == "README is too short (less than 200 characters)"
MissingHeaders == "Missing essential section headers"
UnclosedBlock == "Unclosed code block detected"
MetaDetected == "AI meta-commentary detected in output"

validateReadmeOutput(markdown) ==
  LET errors ==
        (IF Len(markdown) < MinLength THEN << TooShort >> ELSE << >>)
        \o (IF HeaderMatches(markdown) < 2 THEN << MissingHeaders >> ELSE << >>)
        \o (IF FenceMatches(markdown) % 2 # 0 THEN << UnclosedBlock >> ELSE << >>)
        \o (IF MetaCommentary(markdown) THEN << MetaDetected >> ELSE << >>)
  IN  [valid |-> Len(errors) = 0, errors |-> errors]

\* ------------------------------------------------------ JSON.stringify

Quote == "\""

\* the escape of one character inside a JSON string
JsonChar(c) ==
  IF c = Quote THEN << "\\", Quote >>
  ELSE IF c = "\\" THEN << "\\", "\\" >>
  ELSE IF c = "\n" THEN << "\\", "n" >>
  ELSE IF c = "\t" THEN << "\\", "t" >>
  ELSE IF c = "\r" THEN << "\\", "r" >>
  ELSE << c >>

\* the escapes of s[lo .. hi], joined
RECURSIVE JsonChars(_, _, _)
JsonChars(s, lo, hi) ==
  IF lo > hi THEN << >>
  ELSE IF lo = hi THEN JsonChar(s[lo])
  ELSE LET mid == (lo + hi) \div 2
       IN  JsonChars(s, lo, mid) \o JsonChars(s, mid + 1, hi)

\* JSON.stringify of a string
JsonString(s) == << Quote >> \o JsonChars(s, 1, Len(s)) \o << Quote >>

ContentKey == << "\"", "c", "o", "n", "t", "e", "n", "t", "\"", ":" >>

ChoicesKey == << "\"", "c", "h", "o", "i", "c", "e", "s", "\"", ":" >>

MessageKey == << "\"", "m", "e", "s", "s", "a", "g", "e", "\"", ":" >>

\* JSON.stringify of the choices array, from element p
RECURSIVE JsonChoices(_, _)
JsonChoices(ch, p) ==
  IF p > Len(ch) THEN << >>
  ELSE (IF p > 1 THEN << "," >> ELSE << >>)
       \o << "{" >> \o MessageKey \o << "{" >> \o ContentKey \o JsonString(ch[p])
       \o << "}", "}" >> \o JsonChoices(ch, p + 1)

\* JSON.stringify of an output object: its own keys in insertion order
JsonObject(o) ==
  LET c == IF o.content.present THEN ContentKey \o JsonString(o.content.text) ELSE << >>
      h == IF o.choices.present
           THEN ChoicesKey \o << "[" >> \o JsonChoices(o.choices.items, 1) \o << "]" >>
           ELSE << >>
      sep == IF o.content.present /\ o.choices.present THEN << "," >> ELSE << >>
  IN  << "{" >> \o c \o sep \o h \o << "}" >>

\* ------------------------------------------------------------ documents

Title == << "#", " ", "T", "\n" >>

Usage == << "#", "#", " ", "U", "\n" >>

\* valid: long enough, two headings, no fence, no meta-commentary
GoodDoc == Title \o Usage \o Repeat("x", MinLength)

\* a valid document in a markdown fence, the opening line in capitals
WrappedDoc ==
  FenceMarker \o << "M", "a", "r", "k", "d", "o", "w", "n", "\n" >> \o GoodDoc \o FenceTail

\* long enough only with its trailing blanks
PaddedDoc == Title \o Usage \o Repeat("x", MinLength - 10) \o Repeat(" ", 10)

ShortDoc == Title \o Usage

PlainDoc == Repeat("x", MinLength)

\* two fence markers, of which the stripping removes the first only
HalfWrappedDoc == FenceLine \o GoodDoc \o << "\n" >> \o FenceMarker \o << "j", "s" >>

MetaDoc == << "H", "e", "r", "e", " ", "i", "s", " ", "y", "o", "u", "r", " ", "R", "E", "A", "D", "M", "E", "\n" >> \o GoodDoc

EmptyDoc == << >>

Texts ==
  { GoodDoc, WrappedDoc, PaddedDoc, ShortDoc, PlainDoc, HalfWrappedDoc, MetaDoc, EmptyDoc }

\* The documents validateReadmeOutput is applied to on its own are put together
\* from a recipe: a phrase of meta-commentary at the start (in small letters or
\* in capitals) or at the end or nowhere, heading lines, lines of a lone #
\* each followed by a line of text, runs of backquotes, and padding.
HeadingLine == << "#", "#", " ", "S", "\n" >>

BarePair == << "#", "\n", "f", "o", "o", "\n" >>

HereIsLine == << "h", "e", "r", "e", " ", "i", "s", " ", "i", "t", "\n" >>

BelowIsLine == << "B", "E", "L", "O", "W", " ", "I", "S", ":", "\n" >>

CreatedPhrase == << "I", "'", "v", "e", " ", "c", "r", "e", "a", "t", "e", "d" >>

\* k copies of part, one after the other
RepeatSeq(part, k) == [i \in 1 .. (k * Len(part)) |-> part[((i - 1) % Len(part)) + 1]]

\* runs of backquotes of the given lengths, a line each
RECURSIVE BackquoteRuns(_, _)
BackquoteRuns(runs, i) ==
  IF i > Len(runs) THEN << >>
  ELSE Repeat(Backquote, runs[i]) \o << "\n" >> \o BackquoteRuns(runs, i + 1)

Pads == {0, MinLength, MetaWindow - 6, MetaWindow + 20}

RunLists == { << >>, << 3 >>, << 4 >>, << 6 >>, << 3, 3 >>, << 3, 3, 3 >>, << 9 >> }

MetaPlaces == {"none", "start", "capitals", "end"}

Recipes ==
  [pad : Pads, headings : 0 .. MaxHeadings, bare : 0 .. MaxBare, runs : RunLists,
   meta : MetaPlaces]

NoRecipe == [pad |-> 0, headings |-> 0, bare |-> 0, runs |-> << >>, meta |-> "none"]

BuildDocument(r) ==
  (IF r.meta = "start" THEN HereIsLine ELSE IF r.meta = "capitals" THEN BelowIsLine ELSE << >>)
  \o RepeatSeq(HeadingLine, r.headings)
  \o RepeatSeq(BarePair, r.bare)
  \o BackquoteRuns(r.runs, 1)
  \o Repeat("x", r.pad)
  \o (IF r.meta = "end" THEN CreatedPhrase ELSE << >>)

\* ------------------------------------------------- provider responses

\* a content member that is no string, as a value handed on
NotAString == << "NOT A STRING" >>

Absent == [present |-> FALSE, text |-> << >>]

Present(t) == [present |-> TRUE, text |-> t]

NoChoices == [present |-> FALSE, items |-> << >>]

Choices(items) == [present |-> TRUE, items |-> items]

StringOutput(t) == [type |-> "string", text |-> t, content |-> Absent, choices |-> NoChoices]

ObjectOutput(c, ch) == [type |-> "object", text |-> << >>, content |-> c, choices |-> ch]

UndefinedOutput ==
  [type |-> "undefined", text |-> << >>, content |-> Absent, choices |-> NoChoices]

Outputs ==
  { StringOutput(t) : t \in Texts }
  \cup { ObjectOutput(Present(GoodDoc), NoChoices),
         ObjectOutput(Present(EmptyDoc), Choices(<< WrappedDoc >>)),
         ObjectOutput(Absent, Choices(<< ShortDoc >>)),
         ObjectOutput(Absent, Choices(<< >>)),
         ObjectOutput(Absent, NoChoices),
         ObjectOutput(Present(NotAString), NoChoices),
         UndefinedOutput }

RateLimitMessage == << "r", "a", "t", "e", " ", "l", "i", "m", "i", "t", " ", "e", "x", "c", "e", "e", "d", "e", "d" >>

AuthMessage == << "a", "u", "t", "h", "e", "n", "t", "i", "c", "a", "t", "i", "o", "n", " ", "f", "a", "i", "l", "e", "d" >>

ApiKeyMessage == << "I", "n", "v", "a", "l", "i", "d", " ", "A", "P", "I", " ", "k", "e", "y" >>

OtherMessage == << "b", "o", "o", "m" >>

\* an exception that is no ReadmeGenerationError: it has no code and no retryable
RawError(message) == [name |-> "Error", message |-> message]

RawErrors == { RawError(m) : m \in {RateLimitMessage, AuthMessage, OtherMessage} }

\* the error member of the pair the provider resolves to
ProviderErrors == { Present(ApiKeyMessage), Present(RateLimitMessage) }

Rejected(e) == [kind |-> "rejected", reason |-> e, error |-> Absent, output |-> UndefinedOutput]

Fulfilled(e, o) ==
  [kind |-> "fulfilled", reason |-> RawError(<< >>), error |-> e, output |-> o]

\* what awaiting model.run can produce
Responses ==
  { Rejected(e) : e \in RawErrors }
  \cup { Fulfilled(e, UndefinedOutput) : e \in ProviderErrors }
  \cup { Fulfilled(Absent, o) : o \in Outputs }
  \cup { Fulfilled(Present(EmptyDoc), StringOutput(GoodDoc)) }

\* --------------------------------------------------------------- errors

Undefined == [name |-> "undefined"]

NoError == [name |-> "none"]

\* new ReadmeGenerationError(message, code, retryable, originalError); a message
\* is the sequence of the pieces it is concatenated from
ReadmeGenerationError(message, code, retryable, originalError) ==
  [name |-> "ReadmeGenerationError", message |-> message, code |-> code,
   retryable |-> retryable, originalError |-> originalError]

\* err.retryable read as a condition: undefined on an error that has no such field
Retryable(err) == "retryable" \in DOMAIN err /\ err.retryable

MissingKeyError ==
  ReadmeGenerationError(<< "Missing BYTEZ_API_KEY in environment variables" >>,
                        "AUTH_ERROR", FALSE, Undefined)

AllFailedError ==
  ReadmeGenerationError(<< "All fallback models failed" >>, "UNKNOWN", FALSE, Undefined)

\* what one invocation of an operation ends with
Return(v) == [ok |-> TRUE, value |-> v, error |-> NoError]

Throw(e) == [ok |-> FALSE, value |-> << >>, error |-> e]

\* ------------------------------------------------- generateReadme, closure

\* errors.join(', ')
RECURSIVE Join(_, _)
Join(errors, p) ==
  IF p > Len(errors) THEN << >>
  ELSE (IF p > 1 THEN << ", " >> ELSE << >>) \o << errors[p] >> \o Join(errors, p + 1)

\* a string or an object member read as a condition
Truthy(member) == member.present /\ Len(member.text) > 0

\* the output parsing: string, then content, then choices[0].message.content,
\* then JSON.stringify of the object; anything else leaves the empty string
NormalizeOutput(output) ==
  IF output.type = "string" THEN output.text
  ELSE IF output.type = "object"
  THEN IF Truthy(output.content) THEN output.content.text
       ELSE IF output.choices.present /\ Len(output.choices.items) > 0
               /\ Len(output.choices.items[1]) > 0
       THEN output.choices.items[1]
       ELSE JsonObject(output)
  ELSE << >>

InvalidOutputError(errors) ==
  ReadmeGenerationError(<< "Generated README failed validation: " >> \o Join(errors, 1),
                        "INVALID_OUTPUT", TRUE, Undefined)

\* ProviderReportedError with the flag of the streaming path's UNKNOWN
ProviderReportedErrorFinal(error) ==
  ReadmeGenerationError(<< "Bytez API Error: " >> \o JsonString(error.text),
                        "UNKNOWN", FALSE, [name |-> "value", message |-> error.text])

\* ProviderReportedError that goes by what the error says: an error about the
\* API key is an AUTH_ERROR that is not retryable
ProviderReportedErrorClassified(error) ==
  IF Includes(error.text, << "A", "P", "I", " ", "k", "e", "y" >>)
  THEN ReadmeGenerationError(<< "Invalid API key or authentication failed" >>,
                             "AUTH_ERROR", FALSE, [name |-> "value", message |-> error.text])
  ELSE ReadmeGenerationError(<< "Bytez API Error: " >> \o JsonString(error.text),
                             "UNKNOWN", TRUE, [name |-> "value", message |-> error.text])

ProviderReportedError(error) ==
  ReadmeGenerationError(<< "Bytez API Error: " >> \o JsonString(error.text),
                        "UNKNOWN", TRUE, [name |-> "value", message |-> error.text])

\* finalMarkdown.replace(...) on a content that is no string
FinalReplaceTypeError ==
  [name |-> "TypeError",
   message |->
    << "f", "i", "n", "a", "l", "M", "a", "r", "k", "d", "o", "w", "n", ".", "r", "e", "p",
    "l", "a", "c", "e", " ", "i", "s", " ", "n", "o", "t", " ", "a", " ", "f", "u", "n", "c",
    "t", "i", "o", "n" >>]

\* AfterRun with the validation run on the document as received, before the
\* fences are stripped and the blanks trimmed
AfterRunValidatesFirst(resp) ==
  IF resp.kind = "rejected" THEN Throw(resp.reason)
  ELSE IF Truthy(resp.error) THEN Throw(ProviderReportedError(resp.error))
  ELSE LET validation == validateReadmeOutput(NormalizeOutput(resp.output))
       IN  IF ~validation.valid THEN Throw(InvalidOutputError(validation.errors))
           ELSE Return(StripFences(NormalizeOutput(resp.output)))

\* The closure from the point where awaiting model.run resumes: a rejection is
\* thrown as it is (the closure has no try), a reported error and an invalid
\* document are thrown as ReadmeGenerationError, a valid document is returned;
\* on a content that is no string the cleanup's replace throws a TypeError.
AfterRun(resp) ==
  IF resp.kind = "rejected" THEN Throw(resp.reason)
  ELSE IF Truthy(resp.error) THEN Throw(ProviderReportedError(resp.error))
  ELSE IF NormalizeOutput(resp.output) = NotAString THEN Throw(FinalReplaceTypeError)
  ELSE LET finalMarkdown == StripFences(NormalizeOutput(resp.output))
           validation == validateReadmeOutput(finalMarkdown)
       IN  IF ~validation.valid THEN Throw(InvalidOutputError(validation.errors))
           ELSE Return(finalMarkdown)

\* AfterRun, tabulated over the responses
RunResult == [resp \in Responses |-> AfterRun(resp)]

\* ------------------------------------------------------------- numbers
\* The delays are Numbers: IEEE 754 binary64, every operation rounded to the
\* nearest value, ties to even. A natural number of any size is the sequence of
\* its digits in base Base, lowest first, with no leading zero; a Number is
\* [m, e] for m * 2^e, m a natural below 2^Precision (no delay is negative,
\* subnormal or infinite).

\* the significand of a binary64 has 53 bits
Precision == 53

Base == 2^13

LimbBits == CHOOSE n \in 1 .. 30 : 2^n = Base

Limb(a, i) == IF i \in 1 .. Len(a) THEN a[i] ELSE 0

\* a without its leading zeros
Canon(a) ==
  LET nz == {i \in 1 .. Len(a) : a[i] # 0}
  IN  IF nz = {} THEN << >> ELSE SubSeq(a, 1, Max(nz))

\* the digits of the number whose i-th digit place holds d[i], any size, plus c
RECURSIVE Carry(_, _, _)
Carry(d, i, c) ==
  IF i > Len(d)
  THEN IF c = 0 THEN << >> ELSE << c % Base >> \o Carry(d, i, c \div Base)
  ELSE << (d[i] + c) % Base >> \o Carry(d, i + 1, (d[i] + c) \div Base)

BigOfInt(n) == Canon(Carry(<< n >>, 1, 0))

BigAdd(a, b) ==
  Canon(Carry([k \in 1 .. Max({Len(a), Len(b)}) |-> Limb(a, k) + Limb(b, k)], 1, 0))

\* the sum of a[i] * b[k + 1 - i] over i .. k
RECURSIVE SumProd(_, _, _, _)
SumProd(a, b, k, i) ==
  IF i > k THEN 0 ELSE Limb(a, i) * Limb(b, k + 1 - i) + SumProd(a, b, k, i + 1)

BigMul(a, b) == Canon(Carry([k \in 1 .. (Len(a) + Len(b)) |-> SumProd(a, b, k, 1)], 1, 0))

BigLess(a, b) ==
  \/ Len(a) < Len(b)
  \/ /\ Len(a) = Len(b)
     /\ \E i \in 1 .. Len(a) : a[i] < b[i] /\ \A j \in (i + 1) .. Len(a) : a[j] = b[j]

BigPow2(k) ==
  [i \in 1 .. (k \div LimbBits + 1) |-> IF i = k \div LimbBits + 1 THEN 2^(k % LimbBits) ELSE 0]

\* a * 2^k
ShiftLeft(a, k) == BigMul(a, BigPow2(k))

\* a \div 2^k
ShiftRight(a, k) ==
  LET q == k \div LimbBits
      t == k % LimbBits
  IN  Canon([i \in 1 .. Len(a) |->
               Limb(a, i + q) \div 2^t + (Limb(a, i + q + 1) % 2^t) * 2^(LimbBits - t)])

\* the number of bits of a
BitLength(a) ==
  IF a = << >> THEN 0
  ELSE (Len(a) - 1) * LimbBits
       + CHOOSE n \in 1 .. LimbBits : 2^(n - 1) <= a[Len(a)] /\ a[Len(a)] < 2^n

IsOdd(a) == a # << >> /\ a[1] % 2 = 1

\* the remainder of the digits of a from the i-th up, divided by d
RECURSIVE RemFrom(_, _, _)
RemFrom(a, d, i) == IF i > Len(a) THEN 0 ELSE (RemFrom(a, d, i + 1) * Base + a[i]) % d

\* a \div d for a small d
BigDiv(a, d) == Canon([i \in 1 .. Len(a) |-> (RemFrom(a, d, i + 1) * Base + a[i]) \div d])

\* The Number nearest to M * 2^E, ties to even.
RoundNearest(M, E) ==
  LET L == BitLength(M)
      s == L - Precision
      q == ShiftRight(M, s)
      half == IsOdd(ShiftRight(M, s - 1))
      sticky == ShiftLeft(ShiftRight(M, s - 1), s - 1) # M
      up == half /\ (sticky \/ IsOdd(q))
      m == IF up THEN BigAdd(q, BigOfInt(1)) ELSE q
  IN  IF L = 0 THEN [m |-> << >>, e |-> 0]
      ELSE IF L <= Precision THEN [m |-> ShiftLeft(M, Precision - L), e |-> E - (Precision - L)]
      ELSE IF BitLength(m) > Precision THEN [m |-> ShiftRight(m, 1), e |-> E + s + 1]
      ELSE [m |-> m, e |-> E + s]

\* x * y
NumMul(x, y) == RoundNearest(BigMul(x.m, y.m), x.e + y.e)

\* x + y
NumAdd(x, y) ==
  IF x.m = << >> THEN y
  ELSE IF y.m = << >> THEN x
  ELSE LET e == Min({x.e, y.e})
       IN  RoundNearest(BigAdd(ShiftLeft(x.m, x.e - e), ShiftLeft(y.m, y.e - e)), e)

\* the Number of an integer literal
NumOfInt(n) == RoundNearest(BigOfInt(n), 0)

\* The Number nearest to n / d, as a decimal literal or a random draw denotes it:
\* the quotient to more bits than a Number keeps, with a last bit that tells
\* whether anything was left over.
NumOfRatio(n, d) ==
  LET scaled == ShiftLeft(BigOfInt(n), 3 * Precision)
      quot == BigDiv(scaled, d)
      rest == IF BigMul(quot, BigOfInt(d)) = scaled THEN 0 ELSE 1
  IN  RoundNearest(BigAdd(ShiftLeft(quot, 1), BigOfInt(rest)), 0 - (3 * Precision + 1))

\* x < n / d and x <= n / d, exactly
NumLess(x, n, d) ==
  IF x.e >= 0 THEN BigLess(BigMul(ShiftLeft(x.m, x.e), BigOfInt(d)), BigOfInt(n))
  ELSE BigLess(BigMul(x.m, BigOfInt(d)), ShiftLeft(BigOfInt(n), 0 - x.e))

NumLeq(x, n, d) ==
  IF x.e >= 0 THEN ~BigLess(BigOfInt(n), BigMul(ShiftLeft(x.m, x.e), BigOfInt(d)))
  ELSE ~BigLess(ShiftLeft(BigOfInt(n), 0 - x.e), BigMul(x.m, BigOfInt(d)))

\* x < y
NumBelow(x, y) ==
  LET e == Min({x.e, y.e})
  IN  BigLess(ShiftLeft(x.m, x.e - e), ShiftLeft(y.m, y.e - e))

\* the largest Number below 1: Precision bits, all set, times 2^-Precision
MaxRandom ==
  [m |-> ShiftRight([i \in 1 .. (Precision \div LimbBits + 1) |-> Base - 1],
                    (Precision \div LimbBits + 1) * LimbBits - Precision),
   e |-> 0 - Precision]

\* What Math.random() returns, a Number that is at least 0 and less than 1: the
\* multiples of 1 / RandRes and the largest such Number.
Randoms == { NumOfRatio(k, RandRes) : k \in 0 .. (RandRes - 1) } \cup { MaxRandom }

\* ----------------------------------------------- withExponentialBackoff

\* ShouldRethrow with > for >=
ShouldRethrowStrict(att, maxR) == att > maxR

\* ShouldRethrow that counts the first invocation as a retry
ShouldRethrowEarly(att, maxR) == att + 1 >= maxR

\* if (attempt >= maxRetries) throw error
ShouldRethrow(att, maxR) == att >= maxR

\* baseDelay * Math.pow(2, attempt)
ExponentialDelay(base, att) == NumMul(NumOfInt(base), NumOfInt(2^att))

\* Jitter with 0.6 for 0.3
JitterWide(exponentialDelay, random) ==
  NumMul(NumMul(random, exponentialDelay), NumOfRatio(6, 10))

\* Math.random() * exponentialDelay * 0.3
Jitter(exponentialDelay, random) ==
  NumMul(NumMul(random, exponentialDelay), NumOfRatio(3, 10))

\* exponentialDelay + jitter, with the attempt it follows
TotalDelay(base, att, random) ==
  [attempt |-> att,
   totalDelay |-> NumAdd(ExponentialDelay(base, att),
                         Jitter(ExponentialDelay(base, att), random))]

\* the base delays a caller of withExponentialBackoff passes: 1 ms and generateReadme's
BaseDelays == {1, GenerateBaseDelay}

\* The delays that can be slept, computed once: for every base delay, attempt
\* and random draw, exponentialDelay + jitter.
Delays ==
  { [baseDelay |-> t[1], delay |-> TotalDelay(t[1], t[2], t[3])] :
      t \in BaseDelays \X (0 .. Max({MaxRetriesBound, GenerateMaxRetries})) \X Randoms }

\* ------------------------------------------------------ buildSystemPrompt
\* A prompt is the sequence of the pieces it is concatenated from. A config
\* is a record; style is "" when it is not set, a flag is "undefined" when it is
\* not set.

basePrompt ==
  << "You are a Senior Principal Engineer ... ONLY output the raw markdown." >>

styleAdditions ==
  [ minimal |-> "\n- Keep it concise: 5-7 sections max, focus on Quick Start.",
    standard |-> "\n- Balance detail with readability: Include all essential sections.",
    enterprise |-> "\n- Maximum detail: Architecture diagrams, security policies, CI/CD, deployment guides, monitoring setup." ]

ArchitectureClause ==
  "\n- MUST include a Mermaid architecture diagram showing system components."

SecurityClause ==
  "\n- MUST include a Security section with vulnerability reporting and best practices."

ContributingClause ==
  "\n- MUST include detailed Contributing guidelines with PR process and code standards."

\* a flag read as a condition
FlagSet(flag) == flag = "true"

\* styleAdditions[config.style || 'standard'] || ''
StyleAddition(style) ==
  LET key == IF style # "" THEN style ELSE "standard"
  IN  IF key \in DOMAIN styleAdditions THEN << styleAdditions[key] >> ELSE << >>

\* buildSystemPrompt with the security test before the architecture test
buildSystemPromptSecurityFirst(cfg) ==
  basePrompt \o StyleAddition(cfg.style)
  \o (IF FlagSet(cfg.includeSecurity) THEN << SecurityClause >> ELSE << >>)
  \o (IF FlagSet(cfg.includeArchitecture) THEN << ArchitectureClause >> ELSE << >>)
  \o (IF FlagSet(cfg.includeContributing) THEN << ContributingClause >> ELSE << >>)

\* buildSystemPrompt with the three tests chained by else
buildSystemPromptChained(cfg) ==
  basePrompt \o StyleAddition(cfg.style)
  \o (IF FlagSet(cfg.includeArchitecture) THEN << ArchitectureClause >>
      ELSE IF FlagSet(cfg.includeSecurity) THEN << SecurityClause >>
      ELSE IF FlagSet(cfg.includeContributing) THEN << ContributingClause >>
      ELSE << >>)

buildSystemPrompt(cfg) ==
  basePrompt \o StyleAddition(cfg.style)
  \o (IF FlagSet(cfg.includeArchitecture) THEN << ArchitectureClause >> ELSE << >>)
  \o (IF FlagSet(cfg.includeSecurity) THEN << SecurityClause >> ELSE << >>)
  \o (IF FlagSet(cfg.includeContributing) THEN << ContributingClause >> ELSE << >>)

\* config = {}: nothing is set
EmptyConfig ==
  [ model |-> "", style |-> "", includeArchitecture |-> "undefined",
    includeSecurity |-> "undefined", includeContributing |-> "undefined" ]

Styles == {"", "minimal", "standard", "enterprise"}

Flags == {"undefined", "false", "true"}

FlagNames == {"includeArchitecture", "includeSecurity", "includeContributing"}

\* the configs of the type ReadmeConfig, as far as buildSystemPrompt reads them
PromptConfigs ==
  [ model : {""}, style : Styles, includeArchitecture : Flags,
    includeSecurity : Flags, includeContributing : Flags ]

\* ------------------------------------------- generateReadmeWithFallback

Models ==
  << "openai/gpt-4o", "openai/gpt-4-turbo",
     "anthropic/claude-3-5-sonnet-20241022", "openai/gpt-3.5-turbo" >>

DefaultModel == "openai/gpt-4o"

\* FallbackRethrows without the test of err.retryable
FallbackRethrowsLastOnly(err, idx) == Models[idx] = Models[Len(Models)]

\* FallbackRethrows without the test for the last model
FallbackRethrowsNotRetryable(err, idx) == ~Retryable(err)

\* if (!err.retryable || model === models[models.length - 1]) throw err
FallbackRethrows(err, idx) == ~Retryable(err) \/ Models[idx] = Models[Len(Models)]

\* WithModel with the spread after the model: { model, ...config }
WithModelCallerWins(cfg, model) == IF cfg.model # "" THEN cfg ELSE [cfg EXCEPT !.model = model]

\* { ...config, model }
WithModel(cfg, model) == [cfg EXCEPT !.model = model]

\* config.model || "openai/gpt-4o"
ModelName(cfg) == IF cfg.model # "" THEN cfg.model ELSE DefaultModel

\* the configs a caller passes: model is "" when it is not set
Configs ==
  { EmptyConfig,
    [ model |-> "custom/model", style |-> "enterprise", includeArchitecture |-> "true",
      includeSecurity |-> "false", includeContributing |-> "true" ] }

\* ------------------------------------------------ generateReadmeStreaming

\* the messages of the errors model.run or its stream can throw
RateLimitCapitalMessage ==
  << "R", "a", "t", "e", " ", "L", "i", "m", "i", "t", " ", "e", "x", "c", "e", "e", "d", "e",
     "d" >>

ApiKeyLowerMessage ==
  << "i", "n", "v", "a", "l", "i", "d", " ", "a", "p", "i", " ", "k", "e", "y" >>

NetworkMessage ==
  << "n", "e", "t", "w", "o", "r", "k", " ", "t", "i", "m", "e", "o", "u", "t" >>

RateLimitAuthMessage ==
  << "a", "u", "t", "h", "e", "n", "t", "i", "c", "a", "t", "i", "o", "n", " ", "r", "a", "t",
     "e", " ", "l", "i", "m", "i", "t" >>

RefusedMessage ==
  << "c", "o", "n", "n", "e", "c", "t", " ", "E", "C", "O", "N", "N", "R", "E", "F", "U", "S",
     "E", "D", " ", "1", "0", ".", "0", ".", "0", ".", "1", ":", "4", "4", "3" >>

\* an exception with a code, as the system's connection errors have
SystemError(message, code) == [name |-> "Error", message |-> message, code |-> code]

\* fullMarkdown.replace(...) on a content that is no string
ReplaceTypeError ==
  [name |-> "TypeError",
   message |->
    << "f", "u", "l", "l", "M", "a", "r", "k", "d", "o", "w", "n", ".", "r", "e", "p", "l", "a",
       "c", "e", " ", "i", "s", " ", "n", "o", "t", " ", "a", " ", "f", "u", "n", "c", "t", "i",
       "o", "n" >>]

StreamErrors ==
  { RawError(m) : m \in { RateLimitMessage, RateLimitCapitalMessage, AuthMessage, ApiKeyMessage,
                          ApiKeyLowerMessage, NetworkMessage, RateLimitAuthMessage,
                          OtherMessage } }
  \cup { SystemError(RefusedMessage, "ECONNREFUSED") }

RateLimitWord == << "r", "a", "t", "e", " ", "l", "i", "m", "i", "t" >>

AuthenticationWord == << "a", "u", "t", "h", "e", "n", "t", "i", "c", "a", "t", "i", "o", "n" >>

ApiKeyWord == << "A", "P", "I", " ", "k", "e", "y" >>

NetworkWord == << "n", "e", "t", "w", "o", "r", "k" >>

\* The catch of generateReadmeStreaming: the ReadmeGenerationError it throws
\* for the error it caught. includes compares the characters as they are.
ClassifyError(err) ==
  IF Includes(err.message, RateLimitWord)
  THEN ReadmeGenerationError(<< "API rate limit exceeded. Please try again later." >>,
                             "RATE_LIMIT", TRUE, err)
  ELSE IF Includes(err.message, AuthenticationWord) \/ Includes(err.message, ApiKeyWord)
  THEN ReadmeGenerationError(<< "Invalid API key or authentication failed" >>,
                             "AUTH_ERROR", FALSE, err)
  ELSE IF Includes(err.message, NetworkWord)
          \/ ("code" \in DOMAIN err /\ err.code = "ECONNREFUSED")
  THEN ReadmeGenerationError(<< "Network error occurred. Check your connection." >>,
                             "NETWORK_ERROR", TRUE, err)
  ELSE ReadmeGenerationError(<< "README generation failed: ", err.message >>,
                             "UNKNOWN", FALSE, err)

\* a chunk of the stream: a string, or an object with the string its toString() gives
StringChunk(t) == [type |-> "string", text |-> t]

ObjectChunk(t) == [type |-> "object", text |-> t]

\* typeof chunk === 'string' ? chunk : chunk.toString()
ChunkText(chunk) == chunk.text

\* the chunks a stream is made of: the three parts of a fenced valid document,
\* and a part that arrives as an object
Chunks ==
  { StringChunk(FenceMarkdownLine \o Title),
    StringChunk(Usage \o Repeat("x", MinLength)),
    StringChunk(FenceTail),
    ObjectChunk(Title) }

\* what awaiting model.run with stream: true can give: a rejection, an async
\* iterable, a string, an object with a content member (a string or not), or
\* anything else, an object with choices among them
StreamRejected(e) == [kind |-> "rejected", reason |-> e, text |-> << >>, isString |-> FALSE]

StreamIterable == [kind |-> "iterable", reason |-> NoError, text |-> << >>, isString |-> FALSE]

StreamString(t) == [kind |-> "string", reason |-> NoError, text |-> t, isString |-> TRUE]

StreamContent(t) == [kind |-> "content", reason |-> NoError, text |-> t, isString |-> TRUE]

StreamContentNoString ==
  [kind |-> "content", reason |-> NoError, text |-> << >>, isString |-> FALSE]

\* an object with choices[0].message.content t and no content member
StreamChoices(t) == [kind |-> "other", reason |-> NoError, text |-> t, isString |-> TRUE]

StreamOther == [kind |-> "other", reason |-> NoError, text |-> << >>, isString |-> FALSE]

NoResponse == [kind |-> "none", reason |-> NoError, text |-> << >>, isString |-> FALSE]

StreamResponses ==
  { StreamRejected(e) : e \in StreamErrors }
  \cup { StreamIterable, StreamContentNoString, StreamOther }
  \cup { StreamString(t) : t \in {WrappedDoc, ShortDoc} }
  \cup { StreamContent(t) : t \in {GoodDoc, MetaDoc} }
  \cup { StreamChoices(GoodDoc) }

\* OnChunk that hands the text over together with the one before
OnChunkMerged(delivered, text) ==
  IF delivered = << >> THEN << text >>
  ELSE SubSeq(delivered, 1, Len(delivered) - 1) \o << delivered[Len(delivered)] \o text >>

\* onChunk(text): the invocations of the callback so far, and this one
OnChunk(delivered, text) == Append(delivered, text)

\* ------------------------------------------------------------------ state

VARIABLES
  hasKey,       \* process.env.BYTEZ_API_KEY || process.env.OPENAI_API_KEY is set
  config,       \* the caller's config object
  entry,        \* the function the caller called
  pc,           \* where the request stands
  maxRetries,   \* withExponentialBackoff: its parameters and its attempt counter
  baseDelay,
  attempt,
  modelIdx,     \* generateReadmeWithFallback: the index of the loop's model
  callConfig,   \* the config generateReadme was called with
  invocations,  \* how many times the operation of withExponentialBackoff was invoked
  keyChecks,    \* how many times the credential was tested
  calls,        \* the model.run calls issued, by model name
  sleeps,       \* the delays the current withExponentialBackoff call has slept
  slept,        \* how many timers were set in all
  console,      \* what generateReadmeWithFallback logged
  lastOutcome,  \* how the most recent invocation of the operation ended
  thrownKinds,  \* the kinds of error the invocations of the current
                \* withExponentialBackoff call have thrown
  result,       \* how the call ended
  onChunk,      \* generateReadmeStreaming: whether the caller passed a callback
  response,     \* what awaiting model.run with stream: true gave
  yielded,      \* the chunks the stream has yielded
  ended,        \* how the stream ended: "no", "completed" or "threw"
  chunks,       \* the arguments of the invocations of onChunk
  fullMarkdown, \* the document accumulated
  caught,       \* the error the catch of generateReadmeStreaming caught
  warnings,     \* the validation.errors that generateReadmeStreaming logged
  recipe,       \* validateReadmeOutput on its own: what the document is made of,
  document,     \* the document,
  verdict,      \* and what validateReadmeOutput returned for it
  promptConfig, \* buildSystemPrompt on its own: the config of the next call
  built,        \* and the calls made, each with its config and the prompt returned
  routePc,      \* the GET route: where its streaming block stands,
  terminal,     \* the writes of the block itself, after those of its callback,
  wire,         \* the events that reached the response stream, in order,
  writer,       \* the state of the writable side of the stream,
  closes,       \* and the calls of writer.close() that closed it
  suspended     \* the state of the other of two requests in progress at once

streamVars == << onChunk, response, yielded, ended, chunks, fullMarkdown, caught, warnings >>

validateVars == << recipe, document, verdict >>

promptVars == << promptConfig, built >>

routeVars == << routePc, terminal, wire, writer, closes >>

vars ==
  << hasKey, config, entry, pc, maxRetries, baseDelay, attempt, modelIdx, callConfig,
     invocations, keyChecks, calls, sleeps, slept, console, lastOutcome, thrownKinds,
     result, streamVars, validateVars, promptVars, routeVars, suspended >>

\* no invocation has ended yet
NoOutcome == [ok |-> FALSE, value |-> << >>, error |-> NoError]

\* the kind of a thrown error: the code of a ReadmeGenerationError, "raw" otherwise
Kind(err) == IF err.name = "ReadmeGenerationError" THEN err.code ELSE "raw"

\* thrownKinds once an invocation has ended with o
Noted(o) == IF o.ok THEN thrownKinds ELSE thrownKinds \cup {Kind(o.error)}

Pending == [status |-> "pending", value |-> << >>, modelUsed |-> "", error |-> NoError]

Returned(v, m) == [status |-> "returned", value |-> v, modelUsed |-> m, error |-> NoError]

\* Threw with the error marked as final on its way out
ThrewFinal(e) ==
  [status |-> "threw", value |-> << >>, modelUsed |-> "",
   error |-> IF "retryable" \in DOMAIN e THEN [e EXCEPT !.retryable = FALSE] ELSE e]

Threw(e) == [status |-> "threw", value |-> << >>, modelUsed |-> "", error |-> e]

\* validateReadmeOutput has not been applied
NotValidated == [done |-> FALSE, valid |-> FALSE, errors |-> << >>]

\* there is no other request
NoRequest == [entry |-> "no request"]

\* the GET route is not serving
NoRoute ==
  /\ routePc = "none"
  /\ terminal = << >>
  /\ wire = << >>
  /\ writer = "none"
  /\ closes = 0

\* no call has been made
RequestInit ==
  /\ entry = "none"
  /\ pc = "idle"
  /\ maxRetries = 0
  /\ baseDelay = 0
  /\ attempt = 0
  /\ modelIdx = 0
  /\ callConfig = config
  /\ invocations = 0
  /\ keyChecks = 0
  /\ calls = << >>
  /\ sleeps = << >>
  /\ slept = 0
  /\ console = << >>
  /\ lastOutcome = NoOutcome
  /\ thrownKinds = {}
  /\ result = Pending
  /\ onChunk = FALSE
  /\ response = NoResponse
  /\ yielded = << >>
  /\ ended = "no"
  /\ chunks = << >>
  /\ fullMarkdown = << >>
  /\ caught = NoError
  /\ warnings = << >>

Init ==
  /\ hasKey \in BOOLEAN
  /\ config \in Configs
  /\ RequestInit
  /\ recipe = NoRecipe
  /\ document = << >>
  /\ verdict = NotValidated
  /\ promptConfig = EmptyConfig
  /\ built = << >>
  /\ NoRoute
  /\ suspended = NoRequest

\* NextModel that passes over a model when two or more are left
NextModelSkipping(idx) == IF idx + 2 <= Len(Models) THEN idx + 2 ELSE idx + 1

\* for (const model of models): the index of the model after Models[idx]
NextModel(idx) == idx + 1

\* FallbackReturn that reports the model the caller's config resolves to
FallbackReturnConfigured(markdown, idx) == Returned(markdown, ModelName(config))

\* return { markdown, modelUsed: model }
FallbackReturn(markdown, idx) == Returned(markdown, Models[idx])

\* generateReadmeWithFallback after generateReadme settled with o: return on
\* success, rethrow an error that is not retryable or the last model's, else
\* log and go on to the next model; past the loop, the terminal throw.
FallbackSettle(o) ==
  IF o.ok
  THEN /\ result' = FallbackReturn(o.value, modelIdx)
       /\ pc' = "done"
       /\ thrownKinds' = Noted(o)
       /\ UNCHANGED << modelIdx, callConfig, attempt, sleeps, console >>
  ELSE IF FallbackRethrows(o.error, modelIdx)
  THEN /\ result' = Threw(o.error)
       /\ pc' = "done"
       /\ thrownKinds' = Noted(o)
       /\ UNCHANGED << modelIdx, callConfig, attempt, sleeps, console >>
  ELSE /\ console' = Append(console, << Models[modelIdx], "failed, trying next model..." >>)
       /\ IF modelIdx < Len(Models)
          THEN /\ modelIdx' = NextModel(modelIdx)
               /\ callConfig' = WithModel(config, Models[NextModel(modelIdx)])
               /\ attempt' = 0
               /\ sleeps' = << >>
               /\ thrownKinds' = {}
               /\ pc' = "attempting"
               /\ UNCHANGED result
          ELSE /\ result' = Threw(AllFailedError)
               /\ pc' = "done"
               /\ thrownKinds' = Noted(o)
               /\ UNCHANGED << modelIdx, callConfig, attempt, sleeps >>

\* the promise of withExponentialBackoff settles with o
Settle(o) ==
  IF entry = "generateReadmeWithFallback" THEN FallbackSettle(o)
  ELSE /\ result' = (IF o.ok THEN Returned(o.value, "") ELSE Threw(o.error))
       /\ pc' = "done"
       /\ thrownKinds' = Noted(o)
       /\ UNCHANGED << modelIdx, callConfig, attempt, sleeps, console >>

\* Backoff that goes on to the timer after a success as after a failure, as
\* long as retries are left
BackoffPastSuccess(o) ==
  IF ShouldRethrow(attempt, maxRetries)
  THEN Settle(o) /\ UNCHANGED slept
  ELSE \E d \in { t \in Delays : t.baseDelay = baseDelay /\ t.delay.attempt = attempt } :
         /\ sleeps' = Append(sleeps, d.delay)
         /\ slept' = slept + 1
         /\ pc' = "sleep"
         /\ thrownKinds' = Noted(o)
         /\ UNCHANGED << result, modelIdx, callConfig, attempt, console >>

\* withExponentialBackoff after one invocation of the operation ended with o:
\* return its value; in the catch, rethrow once attempt >= maxRetries, else
\* set the timer for exponentialDelay + jitter.
Backoff(o) ==
  IF o.ok \/ ShouldRethrow(attempt, maxRetries)
  THEN Settle(o) /\ UNCHANGED slept
  ELSE \E d \in { t \in Delays : t.baseDelay = baseDelay /\ t.delay.attempt = attempt } :
         /\ sleeps' = Append(sleeps, d.delay)
         /\ slept' = slept + 1
         /\ pc' = "sleep"
         /\ thrownKinds' = Noted(o)
         /\ UNCHANGED << result, modelIdx, callConfig, attempt, console >>

\* a caller calls withExponentialBackoff(operation, maxR, base) with some operation
CallWithExponentialBackoff(maxR, base) ==
  /\ pc = "idle"
  /\ entry' = "withExponentialBackoff"
  /\ maxRetries' = maxR
  /\ baseDelay' = base
  /\ attempt' = 0
  /\ pc' = "operation"
  /\ UNCHANGED << hasKey, config, modelIdx, callConfig, invocations, keyChecks, calls,
                  sleeps, slept, console, lastOutcome, thrownKinds, result >>
  /\ UNCHANGED streamVars
  /\ UNCHANGED << validateVars, promptVars, routeVars, suspended >>

\* a caller calls generateReadme(prompt, config)
CallGenerateReadme ==
  /\ pc = "idle"
  /\ entry' = "generateReadme"
  /\ callConfig' = config
  /\ maxRetries' = GenerateMaxRetries
  /\ baseDelay' = GenerateBaseDelay
  /\ attempt' = 0
  /\ pc' = "operation"
  /\ UNCHANGED << hasKey, config, modelIdx, invocations, keyChecks, calls,
                  sleeps, slept, console, lastOutcome, thrownKinds, result >>
  /\ UNCHANGED streamVars
  /\ UNCHANGED << validateVars, promptVars, routeVars, suspended >>

\* a caller calls generateReadmeWithFallback(prompt, config): the loop's first model
CallGenerateReadmeWithFallback ==
  /\ pc = "idle"
  /\ entry' = "generateReadmeWithFallback"
  /\ modelIdx' = 1
  /\ callConfig' = WithModel(config, Models[1])
  /\ maxRetries' = GenerateMaxRetries
  /\ baseDelay' = GenerateBaseDelay
  /\ attempt' = 0
  /\ pc' = "attempting"
  /\ UNCHANGED << hasKey, config, invocations, keyChecks, calls,
                  sleeps, slept, console, lastOutcome, thrownKinds, result >>
  /\ UNCHANGED streamVars
  /\ UNCHANGED << validateVars, promptVars, routeVars, suspended >>

\* the loop body logs the attempt and calls generateReadme for the model
AttemptModel ==
  /\ pc = "attempting"
  /\ console' = Append(console, << Models[modelIdx], "Attempting README generation" >>)
  /\ pc' = "operation"
  /\ UNCHANGED << hasKey, config, entry, maxRetries, baseDelay, attempt, modelIdx,
                  callConfig, invocations, keyChecks, calls, sleeps, slept,
                  lastOutcome, thrownKinds, result >>
  /\ UNCHANGED streamVars
  /\ UNCHANGED << validateVars, promptVars, routeVars, suspended >>

\* withExponentialBackoff invokes a caller's operation, which returns v or throws
\* an error of its own
InvokeOperation(ok) ==
  /\ pc = "operation"
  /\ entry = "withExponentialBackoff"
  /\ invocations' = invocations + 1
  /\ LET o == IF ok THEN Return(<< "v", invocations + 1 >>)
              ELSE Throw([name |-> "Error", message |-> << "e", invocations + 1 >>])
     IN  /\ lastOutcome' = o
         /\ Backoff(o)
  /\ UNCHANGED << hasKey, config, entry, maxRetries, baseDelay, keyChecks, calls >>
  /\ UNCHANGED streamVars
  /\ UNCHANGED << validateVars, promptVars, routeVars, suspended >>

\* withExponentialBackoff invokes the closure of generateReadme: the credential
\* test, which throws inside the closure, and then the model.run call
InvokeClosure ==
  /\ pc = "operation"
  /\ entry \in {"generateReadme", "generateReadmeWithFallback"}
  /\ invocations' = invocations + 1
  /\ keyChecks' = keyChecks + 1
  /\ IF ~hasKey
     THEN /\ lastOutcome' = Throw(MissingKeyError)
          /\ Backoff(Throw(MissingKeyError))
          /\ UNCHANGED calls
     ELSE /\ calls' = Append(calls, ModelName(callConfig))
          /\ pc' = "run"
          /\ UNCHANGED << lastOutcome, thrownKinds, result, modelIdx, callConfig,
                          attempt, sleeps, slept, console >>
  /\ UNCHANGED << hasKey, config, entry, maxRetries, baseDelay >>
  /\ UNCHANGED streamVars
  /\ UNCHANGED << validateVars, promptVars, routeVars, suspended >>

\* model.run settles with resp and the closure runs to its end
ProviderResponds(resp) ==
  /\ pc = "run"
  /\ lastOutcome' = RunResult[resp]
  /\ Backoff(RunResult[resp])
  /\ UNCHANGED << hasKey, config, entry, maxRetries, baseDelay, invocations,
                  keyChecks, calls >>
  /\ UNCHANGED streamVars
  /\ UNCHANGED << validateVars, promptVars, routeVars, suspended >>

\* TimerFires without the attempt++
TimerFiresNotCounting ==
  /\ pc = "sleep"
  /\ pc' = "operation"
  /\ UNCHANGED << hasKey, config, entry, maxRetries, baseDelay, attempt, modelIdx,
                  callConfig, invocations, keyChecks, calls, sleeps, slept, console,
                  lastOutcome, thrownKinds, result >>
  /\ UNCHANGED streamVars
  /\ UNCHANGED << validateVars, promptVars, routeVars, suspended >>

\* the timer fires: attempt++ and the loop invokes the operation again
TimerFires ==
  /\ pc = "sleep"
  /\ attempt' = attempt + 1
  /\ pc' = "operation"
  /\ UNCHANGED << hasKey, config, entry, maxRetries, baseDelay, modelIdx, callConfig,
                  invocations, keyChecks, calls, sleeps, slept, console, lastOutcome,
                  thrownKinds, result >>
  /\ UNCHANGED streamVars
  /\ UNCHANGED << validateVars, promptVars, routeVars, suspended >>

\* StreamFinish that throws on an invalid document, as the closure of
\* generateReadme does; the throw is inside the try
StreamFinishThrowing(markdown) ==
  LET cleaned == StripFences(markdown)
      validation == validateReadmeOutput(cleaned)
  IN  /\ fullMarkdown' = cleaned
      /\ pc' = "done"
      /\ UNCHANGED warnings
      /\ IF validation.valid
         THEN result' = Returned(cleaned, "") /\ UNCHANGED caught
         ELSE /\ caught' = InvalidOutputError(validation.errors)
              /\ result' = Threw(InvalidOutputError(validation.errors))

\* generateReadmeStreaming from the cleanup on: strip the fences and trim,
\* validate, log validation.errors when the document is invalid, return it
StreamFinish(markdown) ==
  LET cleaned == StripFences(markdown)
      validation == validateReadmeOutput(cleaned)
  IN  /\ fullMarkdown' = cleaned
      /\ warnings' = (IF validation.valid THEN warnings
                      ELSE Append(warnings, validation.errors))
      /\ result' = Returned(cleaned, "")
      /\ pc' = "done"
      /\ UNCHANGED caught

\* StreamCatch in a loop that calls model.run again after a retryable error
StreamCatchRetrying(err) ==
  /\ caught' = err
  /\ UNCHANGED warnings
  /\ IF ClassifyError(err).retryable /\ Len(calls) < 2
     THEN pc' = "streamCall" /\ UNCHANGED result
     ELSE pc' = "done" /\ result' = Threw(ClassifyError(err))

\* the catch of generateReadmeStreaming: throw the classified error
StreamCatch(err) ==
  /\ caught' = err
  /\ result' = Threw(ClassifyError(err))
  /\ pc' = "done"
  /\ UNCHANGED warnings

\* CallGenerateReadmeStreaming without the credential test
CallGenerateReadmeStreamingUnchecked(callback) ==
  /\ pc = "idle"
  /\ entry' = "generateReadmeStreaming"
  /\ onChunk' = callback
  /\ callConfig' = config
  /\ keyChecks' = keyChecks + 1
  /\ pc' = "streamCall"
  /\ UNCHANGED << hasKey, config, maxRetries, baseDelay, attempt, modelIdx, invocations,
                  calls, sleeps, slept, console, lastOutcome, thrownKinds, result >>
  /\ UNCHANGED << response, yielded, ended, chunks, fullMarkdown, caught, warnings >>
  /\ UNCHANGED << validateVars, promptVars, routeVars, suspended >>

\* A caller calls generateReadmeStreaming(prompt, config, onChunk), with a
\* callback or without: the credential test, outside the try.
CallGenerateReadmeStreaming(callback) ==
  /\ pc = "idle"
  /\ entry' = "generateReadmeStreaming"
  /\ onChunk' = callback
  /\ callConfig' = config
  /\ keyChecks' = keyChecks + 1
  /\ IF ~hasKey
     THEN pc' = "done" /\ result' = Threw(MissingKeyError)
     ELSE pc' = "streamCall" /\ UNCHANGED result
  /\ UNCHANGED << hasKey, config, maxRetries, baseDelay, attempt, modelIdx, invocations,
                  calls, sleeps, slept, console, lastOutcome, thrownKinds >>
  /\ UNCHANGED << response, yielded, ended, chunks, fullMarkdown, caught, warnings >>
  /\ UNCHANGED << validateVars, promptVars, routeVars, suspended >>

\* inside the try: model.run(messages, { stream: true, ... }) is called
StreamCall ==
  /\ pc = "streamCall"
  /\ calls' = Append(calls, ModelName(callConfig))
  /\ pc' = "streamRun"
  /\ UNCHANGED << hasKey, config, entry, maxRetries, baseDelay, attempt, modelIdx,
                  callConfig, invocations, keyChecks, sleeps, slept, console, lastOutcome,
                  thrownKinds, result >>
  /\ UNCHANGED streamVars
  /\ UNCHANGED << validateVars, promptVars, routeVars, suspended >>

\* model.run settles with resp: a rejection goes to the catch, an async iterable
\* starts the loop, a string or a content member is the whole document and is
\* handed to onChunk at once, anything else leaves the document empty
StreamRunSettles(resp) ==
  /\ pc = "streamRun"
  /\ response' = resp
  /\ IF resp.kind = "rejected"
     THEN StreamCatch(resp.reason) /\ UNCHANGED << chunks, fullMarkdown >>
     ELSE IF resp.kind = "iterable"
     THEN /\ pc' = "streamIter"
          /\ UNCHANGED << result, chunks, fullMarkdown, caught, warnings >>
     ELSE IF resp.kind = "other"
     THEN StreamFinish(<< >>) /\ UNCHANGED chunks
     ELSE IF resp.isString
     THEN /\ chunks' = (IF onChunk THEN OnChunk(chunks, resp.text) ELSE chunks)
          /\ StreamFinish(resp.text)
     ELSE /\ chunks' = (IF onChunk THEN OnChunk(chunks, NotAString) ELSE chunks)
          /\ fullMarkdown' = NotAString
          /\ StreamCatch(ReplaceTypeError)
  /\ UNCHANGED << hasKey, config, entry, maxRetries, baseDelay, attempt, modelIdx,
                  callConfig, invocations, keyChecks, calls, sleeps, slept, console,
                  lastOutcome, thrownKinds, onChunk, yielded, ended >>
  /\ UNCHANGED << validateVars, promptVars, routeVars, suspended >>

\* the stream yields a chunk: the loop body adds its text to the document and
\* hands it to onChunk
StreamYields(chunk) ==
  /\ pc = "streamIter"
  /\ Len(yielded) < MaxFragments
  /\ yielded' = Append(yielded, chunk)
  /\ fullMarkdown' = fullMarkdown \o ChunkText(chunk)
  /\ chunks' = (IF onChunk THEN OnChunk(chunks, ChunkText(chunk)) ELSE chunks)
  /\ UNCHANGED << hasKey, config, entry, pc, maxRetries, baseDelay, attempt, modelIdx,
                  callConfig, invocations, keyChecks, calls, sleeps, slept, console,
                  lastOutcome, thrownKinds, result, onChunk, response, ended, caught,
                  warnings >>
  /\ UNCHANGED << validateVars, promptVars, routeVars, suspended >>

\* the stream is done: the loop ends and the function runs to its return
StreamEnds ==
  /\ pc = "streamIter"
  /\ ended' = "completed"
  /\ StreamFinish(fullMarkdown)
  /\ UNCHANGED << hasKey, config, entry, maxRetries, baseDelay, attempt, modelIdx,
                  callConfig, invocations, keyChecks, calls, sleeps, slept, console,
                  lastOutcome, thrownKinds, onChunk, response, yielded, chunks >>
  /\ UNCHANGED << validateVars, promptVars, routeVars, suspended >>

\* StreamThrows that returns what was accumulated instead of failing
StreamThrowsReturningPartial(err) ==
  /\ pc = "streamIter"
  /\ ended' = "threw"
  /\ caught' = err
  /\ result' = Returned(fullMarkdown, "")
  /\ pc' = "done"
  /\ UNCHANGED << hasKey, config, entry, maxRetries, baseDelay, attempt, modelIdx,
                  callConfig, invocations, keyChecks, calls, sleeps, slept, console,
                  lastOutcome, thrownKinds, onChunk, response, yielded, chunks,
                  fullMarkdown, warnings >>
  /\ UNCHANGED << validateVars, promptVars, routeVars, suspended >>

\* the stream throws: the loop is left for the catch
StreamThrows(err) ==
  /\ pc = "streamIter"
  /\ ended' = "threw"
  /\ StreamCatch(err)
  /\ UNCHANGED << hasKey, config, entry, maxRetries, baseDelay, attempt, modelIdx,
                  callConfig, invocations, keyChecks, calls, sleeps, slept, console,
                  lastOutcome, thrownKinds, onChunk, response, yielded, chunks,
                  fullMarkdown >>
  /\ UNCHANGED << validateVars, promptVars, routeVars, suspended >>

Next ==
  \/ \E maxR \in 0 .. MaxRetriesBound : \E base \in BaseDelays :
       CallWithExponentialBackoff(maxR, base)
  \/ CallGenerateReadme
  \/ CallGenerateReadmeWithFallback
  \/ AttemptModel
  \/ \E ok \in BOOLEAN : InvokeOperation(ok)
  \/ InvokeClosure
  \/ \E resp \in Responses : ProviderResponds(resp)
  \/ TimerFires
  \/ \E callback \in BOOLEAN : CallGenerateReadmeStreaming(callback)
  \/ StreamCall
  \/ \E resp \in StreamResponses : StreamRunSettles(resp)
  \/ \E chunk \in Chunks : StreamYields(chunk)
  \/ StreamEnds
  \/ \E err \in StreamErrors : StreamThrows(err)

Spec == Init /\ [][Next]_vars

\* --------------------------- generateReadme and the fallback, to the end
\* The calls of generateReadme and generateReadmeWithFallback under the
\* assumption that what they wait for comes: every model.run call settles and
\* every timer fires; the steps between two awaits run as soon as they can.

NextGenerate ==
  \/ CallGenerateReadme
  \/ CallGenerateReadmeWithFallback
  \/ AttemptModel
  \/ InvokeClosure
  \/ \E resp \in Responses : ProviderResponds(resp)
  \/ TimerFires

SpecGenerate ==
  /\ Init
  /\ [][NextGenerate]_vars
  /\ WF_vars(AttemptModel)
  /\ WF_vars(InvokeClosure)
  /\ WF_vars(\E resp \in Responses : ProviderResponds(resp))
  /\ WF_vars(TimerFires)

\* ------------------------------------- validateReadmeOutput on its own

\* validateReadmeOutput(document) is called and returns
Validate ==
  /\ ~verdict.done
  /\ verdict' = [done |-> TRUE,
                 valid |-> validateReadmeOutput(document).valid,
                 errors |-> validateReadmeOutput(document).errors]
  /\ UNCHANGED << hasKey, config, entry, pc, maxRetries, baseDelay, attempt, modelIdx,
                  callConfig, invocations, keyChecks, calls, sleeps, slept, console,
                  lastOutcome, thrownKinds, result, streamVars, recipe, document,
                  promptVars, routeVars, suspended >>

InitValidate ==
  /\ hasKey = TRUE
  /\ config = EmptyConfig
  /\ RequestInit
  /\ recipe \in Recipes
  /\ document = BuildDocument(recipe)
  /\ verdict = NotValidated
  /\ promptConfig = EmptyConfig
  /\ built = << >>
  /\ NoRoute
  /\ suspended = NoRequest

NextValidate == Validate

SpecValidate == InitValidate /\ [][NextValidate]_vars

\* --------------------------------------- buildSystemPrompt on its own

\* buildSystemPrompt(promptConfig) is called and returns
BuildSystemPrompt ==
  /\ Len(built) < MaxBuilds
  /\ built' = Append(built, [config |-> promptConfig,
                              prompt |-> buildSystemPrompt(promptConfig)])
  /\ UNCHANGED << hasKey, config, entry, pc, maxRetries, baseDelay, attempt, modelIdx,
                  callConfig, invocations, keyChecks, calls, sleeps, slept, console,
                  lastOutcome, thrownKinds, result, streamVars, validateVars,
                  promptConfig, routeVars, suspended >>

\* between two calls the caller sets one flag of the config to another value
SetFlag(name, flag) ==
  /\ built # << >>
  /\ promptConfig = built[Len(built)].config
  /\ promptConfig[name] # flag
  /\ promptConfig' = [promptConfig EXCEPT ![name] = flag]
  /\ UNCHANGED << hasKey, config, entry, pc, maxRetries, baseDelay, attempt, modelIdx,
                  callConfig, invocations, keyChecks, calls, sleeps, slept, console,
                  lastOutcome, thrownKinds, result, streamVars, validateVars,
                  built, routeVars, suspended >>

InitPrompt ==
  /\ hasKey = TRUE
  /\ config = EmptyConfig
  /\ RequestInit
  /\ recipe = NoRecipe
  /\ document = << >>
  /\ verdict = NotValidated
  /\ promptConfig \in PromptConfigs
  /\ built = << >>
  /\ NoRoute
  /\ suspended = NoRequest

NextPrompt ==
  \/ BuildSystemPrompt
  \/ \E name \in FlagNames : \E flag \in Flags : SetFlag(name, flag)

SpecPrompt == InitPrompt /\ [][NextPrompt]_vars

\* ------------------------------------------------ two requests at once

\* Two calls are in progress in the one process. Every variable of the
\* functions is a local of its call (attempt, fullMarkdown, the closure's
\* config, ...), so each request has its own; process.env and the console are
\* the process's. One request runs at a time, from one await to the next; the
\* variables hold the state of the request that runs, suspended that of the other.

\* the state of the request that runs
Local ==
  [ config |-> config, entry |-> entry, pc |-> pc, maxRetries |-> maxRetries,
    baseDelay |-> baseDelay, attempt |-> attempt, modelIdx |-> modelIdx,
    callConfig |-> callConfig, invocations |-> invocations, keyChecks |-> keyChecks,
    calls |-> calls, sleeps |-> sleeps, slept |-> slept, lastOutcome |-> lastOutcome,
    thrownKinds |-> thrownKinds, result |-> result, onChunk |-> onChunk,
    response |-> response, yielded |-> yielded, ended |-> ended, chunks |-> chunks,
    fullMarkdown |-> fullMarkdown, caught |-> caught, warnings |-> warnings ]

\* the state of a request that has not been called yet
LocalInit(cfg) ==
  [ config |-> cfg, entry |-> "none", pc |-> "idle", maxRetries |-> 0, baseDelay |-> 0,
    attempt |-> 0, modelIdx |-> 0, callConfig |-> cfg, invocations |-> 0,
    keyChecks |-> 0, calls |-> << >>, sleeps |-> << >>, slept |-> 0,
    lastOutcome |-> NoOutcome, thrownKinds |-> {}, result |-> Pending,
    onChunk |-> FALSE, response |-> NoResponse, yielded |-> << >>, ended |-> "no",
    chunks |-> << >>, fullMarkdown |-> << >>, caught |-> NoError, warnings |-> << >> ]

\* the places a request is suspended at: nothing of it runs before the call and
\* after the end, and it awaits model.run, the timer, and the stream's next chunk
YieldsAt(p) == p \in {"idle", "done", "run", "sleep", "streamRun", "streamIter"}

\* Resume with attempt a variable of the module, one for all requests
ResumeSharedAttempt(l) ==
  /\ config' = l.config
  /\ entry' = l.entry
  /\ pc' = l.pc
  /\ maxRetries' = l.maxRetries
  /\ baseDelay' = l.baseDelay
  /\ attempt' = attempt
  /\ modelIdx' = l.modelIdx
  /\ callConfig' = l.callConfig
  /\ invocations' = l.invocations
  /\ keyChecks' = l.keyChecks
  /\ calls' = l.calls
  /\ sleeps' = l.sleeps
  /\ slept' = l.slept
  /\ lastOutcome' = l.lastOutcome
  /\ thrownKinds' = l.thrownKinds
  /\ result' = l.result
  /\ onChunk' = l.onChunk
  /\ response' = l.response
  /\ yielded' = l.yielded
  /\ ended' = l.ended
  /\ chunks' = l.chunks
  /\ fullMarkdown' = l.fullMarkdown
  /\ caught' = l.caught
  /\ warnings' = l.warnings

\* the request with the state l goes on
Resume(l) ==
  /\ config' = l.config
  /\ entry' = l.entry
  /\ pc' = l.pc
  /\ maxRetries' = l.maxRetries
  /\ baseDelay' = l.baseDelay
  /\ attempt' = l.attempt
  /\ modelIdx' = l.modelIdx
  /\ callConfig' = l.callConfig
  /\ invocations' = l.invocations
  /\ keyChecks' = l.keyChecks
  /\ calls' = l.calls
  /\ sleeps' = l.sleeps
  /\ slept' = l.slept
  /\ lastOutcome' = l.lastOutcome
  /\ thrownKinds' = l.thrownKinds
  /\ result' = l.result
  /\ onChunk' = l.onChunk
  /\ response' = l.response
  /\ yielded' = l.yielded
  /\ ended' = l.ended
  /\ chunks' = l.chunks
  /\ fullMarkdown' = l.fullMarkdown
  /\ caught' = l.caught
  /\ warnings' = l.warnings

\* the request that runs is suspended at an await and the other one goes on
Switch ==
  /\ suspended # NoRequest
  /\ YieldsAt(pc)
  /\ suspended' = Local
  /\ Resume(suspended)
  /\ UNCHANGED << hasKey, console, validateVars, promptVars, routeVars >>

\* the responses and chunks of the requests that run two at a time
ConcurrentResponses ==
  { Fulfilled(Absent, StringOutput(GoodDoc)), Fulfilled(Absent, StringOutput(ShortDoc)) }

ConcurrentChunks == { StringChunk(FenceMarkdownLine \o Title), StringChunk(FenceTail) }

InitConcurrent ==
  /\ hasKey = TRUE
  /\ config = EmptyConfig
  /\ RequestInit
  /\ recipe = NoRecipe
  /\ document = << >>
  /\ verdict = NotValidated
  /\ promptConfig = EmptyConfig
  /\ built = << >>
  /\ NoRoute
  /\ suspended = LocalInit([EmptyConfig EXCEPT !.model = "custom/model"])

\* a step of the request that runs
RequestStep ==
  \/ CallGenerateReadme
  \/ InvokeClosure
  \/ \E resp \in ConcurrentResponses : ProviderResponds(resp)
  \/ TimerFires
  \/ CallGenerateReadmeStreaming(TRUE)
  \/ StreamCall
  \/ StreamRunSettles(StreamIterable)
  \/ \E chunk \in ConcurrentChunks : StreamYields(chunk)
  \/ StreamEnds

NextConcurrent ==
  \/ RequestStep
  \/ Switch

SpecConcurrent == InitConcurrent /\ [][NextConcurrent]_vars

\* ------------------------------------------------------------ properties

InGenerate == entry = "generateReadme"

InFallback == entry = "generateReadmeWithFallback"

Codes == {"AUTH_ERROR", "RATE_LIMIT", "NETWORK_ERROR", "INVALID_OUTPUT", "UNKNOWN"}

IsGenerationError(e) ==
  /\ e.name = "ReadmeGenerationError"
  /\ e.code \in Codes
  /\ e.retryable \in BOOLEAN

IsAuthError(e) == IsGenerationError(e) /\ e.code = "AUTH_ERROR" /\ ~e.retryable

Range(f) == {f[i] : i \in DOMAIN f}

AttemptLine(j) == << Models[j], "Attempting README generation" >>

FailedLine(j) == << Models[j], "failed, trying next model..." >>

\* the step in which generateReadme, called by the fallback loop or by the
\* caller, fails: its withExponentialBackoff rethrows what the closure threw
GenerateFails ==
  /\ pc \in {"operation", "run"}
  /\ pc' \in {"done", "attempting"}
  /\ ~lastOutcome'.ok

\* C1: with no credential configured, generateReadme fails at once with
\* AuthError(retryable = false): the credential is tested once, no timer is set
\* and model.run is not called.
C1_MissingCredentialFailsAtOnce ==
  (InGenerate /\ ~hasKey /\ keyChecks > 0) =>
    /\ keyChecks = 1
    /\ slept = 0
    /\ calls = << >>
    /\ pc = "done"
    /\ result = Threw(MissingKeyError)

\* C2: every failure that leaves generateReadme or generateReadmeWithFallback
\* is a ReadmeGenerationError with a code and a retryable flag; a rejection of
\* model.run never escapes as it is.
C2_OnlyGenerationErrorsEscape ==
  ((InGenerate \/ InFallback) /\ result.status = "threw") =>
    IsGenerationError(result.error)

\* C3: when model.run rejects with a message that contains "authentication" or
\* "API key", generateReadme calls the provider no more: one call, no timer, and
\* it fails with AuthError(retryable = false).
C3_AuthRejectionNotRetried ==
  ( /\ InGenerate
    /\ ~lastOutcome.ok
    /\ lastOutcome.error.name = "Error"
    /\ \/ Includes(lastOutcome.error.message, AuthenticationWord)
       \/ Includes(lastOutcome.error.message, ApiKeyWord) ) =>
    /\ pc = "done"
    /\ Len(calls) = 1
    /\ slept = 0
    /\ result.status = "threw"
    /\ IsAuthError(result.error)

\* C4: generateReadmeWithFallback returns on the first model whose generateReadme
\* succeeds: the result is that call's document with modelUsed that model, the
\* models before it were attempted and failed, and no model after it is
\* attempted or called, then or later.
C4_ReturnsOnFirstSuccess ==
  (InFallback /\ result.status = "returned") =>
    /\ pc = "done"
    /\ lastOutcome.ok
    /\ result.value = lastOutcome.value
    /\ result.modelUsed = Models[modelIdx]
    /\ calls[Len(calls)] = Models[modelIdx]
    /\ \A j \in 1 .. Len(Models) :
         /\ (AttemptLine(j) \in Range(console)) <=> (j <= modelIdx)
         /\ (FailedLine(j) \in Range(console)) <=> (j < modelIdx)
         /\ (Models[j] \in Range(calls)) => (j <= modelIdx)
    /\ ~ENABLED Next

C4_Witness ==
  /\ InFallback
  /\ result.status = "returned"
  /\ result.modelUsed = Models[2]
  /\ Len(result.value) > 0

\* C5: when generateReadme for a model fails with an error that is not
\* retryable, generateReadmeWithFallback fails in that step with that error, and
\* nothing runs after a call has ended: no later model is attempted.
C5_NonRetryableStopsFallback ==
  [][ /\ pc # "done"
      /\ (InFallback /\ GenerateFails /\ ~Retryable(lastOutcome'.error)) =>
           /\ pc' = "done"
           /\ result' = Threw(lastOutcome'.error)
           /\ UNCHANGED << modelIdx, calls, console >> ]_vars

C5_Witness ==
  /\ InFallback
  /\ pc = "done"
  /\ modelIdx = 1
  /\ result.status = "threw"
  /\ IsGenerationError(result.error)
  /\ ~result.error.retryable
  /\ FailedLine(1) \notin Range(console)
  /\ AttemptLine(2) \notin Range(console)

\* C6, as claimed: when generateReadme for a model that is not the last fails
\* with a ReadmeGenerationError of kind UNKNOWN, generateReadmeWithFallback
\* propagates it and attempts no further model.
C6_UnknownStopsFallback ==
  [][ ( /\ InFallback
        /\ GenerateFails
        /\ Kind(lastOutcome'.error) = "UNKNOWN"
        /\ modelIdx < Len(Models) ) =>
        /\ pc' = "done"
        /\ result' = Threw(lastOutcome'.error)
        /\ UNCHANGED << modelIdx, calls >> ]_vars

\* C6, amended: the UNKNOWN that generateReadme raises is marked retryable, and
\* when generateReadme for a model that is not the last fails with it,
\* generateReadmeWithFallback logs the failure and goes on to the next model.
C6_RetryableUnknownFallsThrough ==
  [][ ( /\ InFallback
        /\ GenerateFails
        /\ Kind(lastOutcome'.error) = "UNKNOWN"
        /\ modelIdx < Len(Models) ) =>
        /\ Retryable(lastOutcome'.error)
        /\ pc' = "attempting"
        /\ modelIdx' = modelIdx + 1
        /\ console' = Append(console, FailedLine(modelIdx))
        /\ result' = Pending ]_vars

C6_Witness ==
  /\ InFallback
  /\ pc = "attempting"
  /\ modelIdx = 2
  /\ ~lastOutcome.ok
  /\ Kind(lastOutcome.error) = "UNKNOWN"

\* C7: for every maxRetries >= 0, an operation that fails every time is invoked
\* maxRetries + 1 times before withExponentialBackoff throws, there are
\* maxRetries sleeps, none of them after the last failure, and the error thrown
\* is the one of the last invocation.
C7_AlwaysFailingOperation ==
  (entry = "withExponentialBackoff") =>
    /\ invocations <= maxRetries + 1
    /\ Len(sleeps) <= maxRetries
    /\ (pc = "sleep") => (Len(sleeps) = invocations /\ invocations <= maxRetries)
    /\ (result.status = "threw") =>
         /\ pc = "done"
         /\ invocations = maxRetries + 1
         /\ Len(sleeps) = maxRetries
         /\ slept = maxRetries
         /\ result.error = [name |-> "Error", message |-> << "e", invocations >>]

C7_Witness ==
  /\ entry = "withExponentialBackoff"
  /\ result.status = "threw"
  /\ maxRetries = 3
  /\ invocations = 4

\* the delay slept after attempt i - 1 is at least baseDelay * 2^(i - 1), a longer
\* one follows a shorter one, and generateReadme's are at least 1000, 2000, 4000
C8_LowerBounds ==
  /\ \A i \in 1 .. Len(sleeps) :
       /\ sleeps[i].attempt = i - 1
       /\ ~NumLess(sleeps[i].totalDelay, baseDelay * 2^(i - 1), 1)
       /\ (i > 1) => NumBelow(sleeps[i - 1].totalDelay, sleeps[i].totalDelay)
  /\ (InGenerate \/ InFallback) =>
       /\ Len(sleeps) <= 3
       /\ \A i \in 1 .. Len(sleeps) :
            ~NumLess(sleeps[i].totalDelay, << 1000, 2000, 4000 >>[i], 1)

\* C8 as stated: the delay slept after the n-th failed attempt, n from 0, is at
\* least baseDelay * 2^n and less than 1.3 times that.
C8_DelayInterval ==
  /\ C8_LowerBounds
  /\ \A i \in 1 .. Len(sleeps) :
       NumLess(sleeps[i].totalDelay, 13 * baseDelay * 2^(i - 1), 10)

\* C8: the delay slept after the n-th failed attempt, n from 0, is at least
\* baseDelay * 2^n and at most 1.3 times that, the sum being rounded to a
\* Number; so each delay of one call is longer than the one before, and
\* generateReadme's are at least 1000, 2000 and 4000 ms.
C8_DelayClosedInterval ==
  /\ C8_LowerBounds
  /\ \A i \in 1 .. Len(sleeps) :
       NumLeq(sleeps[i].totalDelay, 13 * baseDelay * 2^(i - 1), 10)

\* generateReadme has slept three times, the first time exactly 1300 ms
C8_Witness ==
  /\ InGenerate
  /\ Len(sleeps) = 3
  /\ sleeps[1].totalDelay = NumOfInt(1300)
  /\ NumLess(sleeps[2].totalDelay, 2600, 1)
  /\ ~NumLeq(sleeps[3].totalDelay, 4000, 1)

\* C9: a document that generateReadme or generateReadmeWithFallback returns is
\* not empty and passes validateReadmeOutput.
C9_ReturnedDocumentIsValid ==
  ((InGenerate \/ InFallback) /\ result.status = "returned") =>
    /\ Len(result.value) > 0
    /\ validateReadmeOutput(result.value).valid

C9_Witness ==
  /\ InGenerate
  /\ result.status = "returned"
  /\ attempt > 0
  /\ result.value = Trim(GoodDoc)

\* C10: an invalid output is retried inside withExponentialBackoff. While every
\* response so far failed validation, generateReadme is still retrying or has
\* made its 4 provider calls and failed with InvalidOutput(retryable = true);
\* when the i-th response is the first valid one it returns that document
\* after i provider calls.
C10_InvalidOutputIsRetried ==
  (InGenerate /\ thrownKinds \subseteq {"INVALID_OUTPUT"}) =>
    /\ Len(calls) <= 4
    /\ (~lastOutcome.ok /\ pc = "done") =>
         /\ Len(calls) = 4
         /\ result.status = "threw"
         /\ result.error = lastOutcome.error
         /\ IsGenerationError(result.error)
         /\ result.error.code = "INVALID_OUTPUT"
         /\ result.error.retryable
    /\ (thrownKinds # {} /\ Len(calls) < 4) => result.status # "threw"
    /\ (result.status = "returned") =>
         /\ lastOutcome.ok
         /\ result.value = lastOutcome.value
         /\ Len(calls) = Len(sleeps) + 1
         /\ invocations = Len(calls)

C10_Witness ==
  /\ InGenerate
  /\ thrownKinds = {"INVALID_OUTPUT"}
  /\ result.status = "threw"
  /\ Len(calls) = 4

InStreaming == entry = "generateReadmeStreaming"

\* the texts of the chunks yielded so far, one after the other
RECURSIVE ConcatTexts(_, _)
ConcatTexts(cs, i) == IF i > Len(cs) THEN << >> ELSE ChunkText(cs[i]) \o ConcatTexts(cs, i + 1)

\* C11: when model.run gives a stream, onChunk has been invoked once for each
\* chunk the stream has yielded, the i-th time with the text of the i-th chunk
\* and nothing else; once the stream has completed, the document returned is
\* the texts of all the chunks in that order, fences stripped and trimmed.
C11_ChunksDeliveredInOrder ==
  (InStreaming /\ onChunk /\ response.kind = "iterable") =>
    /\ Len(chunks) = Len(yielded)
    /\ \A i \in 1 .. Len(yielded) : chunks[i] = ChunkText(yielded[i])
    /\ (ended = "completed") =>
         result = Returned(StripFences(ConcatTexts(yielded, 1)), "")

\* three chunks, the fenced document in three parts, came out as the document
C11_Witness ==
  /\ InStreaming
  /\ onChunk
  /\ ended = "completed"
  /\ Len(yielded) = 3
  /\ chunks = << FenceMarkdownLine \o Title, Usage \o Repeat("x", MinLength), FenceTail >>
  /\ result.value = GoodDoc

\* C12: generateReadmeStreaming never retries: it calls model.run at most once
\* and sets no timer, whether it returns, fails before the first chunk or fails
\* after some chunks, so onChunk is invoked no more often than chunks were
\* yielded (once for a response that is the whole document).
C12_StreamingNeverRetries ==
  InStreaming =>
    /\ Len(calls) <= 1
    /\ slept = 0
    /\ sleeps = << >>
    /\ keyChecks = 1
    /\ (pc = "done") => (Len(calls) = IF hasKey THEN 1 ELSE 0)
    /\ Len(chunks) <= (IF response.kind = "iterable" THEN Len(yielded) ELSE 1)

\* the stream threw a retryable error after two chunks had been handed over
C12_Witness ==
  /\ InStreaming
  /\ ended = "threw"
  /\ Len(chunks) = 2
  /\ result.status = "threw"
  /\ result.error.retryable
  /\ Len(calls) = 1
  /\ pc = "done"

\* C13: a document that fails the validation is logged and returned: once the
\* stream has completed, generateReadmeStreaming has returned the accumulated
\* document, fences stripped and trimmed, valid or not, with validation.errors
\* logged exactly when it is not; and it never fails with INVALID_OUTPUT.
C13_InvalidStreamIsReturned ==
  InStreaming =>
    /\ (result.status = "threw") => (result.error.code # "INVALID_OUTPUT")
    /\ (ended = "completed") =>
         /\ pc = "done"
         /\ result.status = "returned"
         /\ result.value = StripFences(ConcatTexts(yielded, 1))
         /\ warnings = (IF validateReadmeOutput(result.value).valid THEN << >>
                        ELSE << validateReadmeOutput(result.value).errors >>)

\* a stream of one chunk completed and the invalid document was returned
C13_Witness ==
  /\ InStreaming
  /\ ended = "completed"
  /\ Len(yielded) = 1
  /\ result.status = "returned"
  /\ Len(result.value) > 0
  /\ ~validateReadmeOutput(result.value).valid
  /\ Len(warnings) = 1

\* the classification with the message compared without regard to case
FoldedIncludes(message, word) == Includes(LowerAll(message), LowerAll(word))

ExpectedClass(err) ==
  IF FoldedIncludes(err.message, RateLimitWord) THEN << "RATE_LIMIT", TRUE >>
  ELSE IF FoldedIncludes(err.message, AuthenticationWord) \/ FoldedIncludes(err.message, ApiKeyWord)
  THEN << "AUTH_ERROR", FALSE >>
  ELSE IF FoldedIncludes(err.message, NetworkWord)
          \/ ("code" \in DOMAIN err /\ err.code = "ECONNREFUSED")
  THEN << "NETWORK_ERROR", TRUE >>
  ELSE << "UNKNOWN", FALSE >>

\* C14: the error generateReadmeStreaming throws for a caught error has the
\* kind and the retryable flag of the first of these that its message matches
\* without regard to case: "rate limit" (RATE_LIMIT, true), "authentication" or
\* "API key" (AUTH_ERROR, false), "network" or the code ECONNREFUSED
\* (NETWORK_ERROR, true), else (UNKNOWN, false); originalError is the caught error.
C14_ClassificationIgnoresCase ==
  (InStreaming /\ caught # NoError) =>
    /\ result.status = "threw"
    /\ << result.error.code, result.error.retryable >> = ExpectedClass(caught)
    /\ result.error.originalError = caught

\* C15: when model.run resolves to a pair whose error is truthy, the attempt of
\* generateReadme throws UNKNOWN(retryable = true) with the provider's error as
\* originalError, whatever the error says, and withExponentialBackoff treats it
\* as any failed attempt: a timer is set while attempt < 3, and after the
\* fourth attempt the error is thrown on.
C15_ProviderErrorIsRetryableUnknown ==
  [][\A resp \in Responses :
       (resp.kind = "fulfilled" /\ Truthy(resp.error) /\ ProviderResponds(resp)) =>
         /\ lastOutcome' =
              Throw(ReadmeGenerationError(<< "Bytez API Error: " >> \o JsonString(resp.error.text),
                                          "UNKNOWN", TRUE,
                                          [name |-> "value", message |-> resp.error.text]))
         /\ IF attempt < GenerateMaxRetries
            THEN pc' = "sleep" /\ slept' = slept + 1 /\ result' = result
            ELSE pc' \in {"done", "attempting"} /\ slept' = slept]_vars

\* generateReadme made its four calls, each answered with an error about the
\* API key, and failed with the retryable UNKNOWN
C15_Witness ==
  /\ InGenerate
  /\ pc = "done"
  /\ Len(calls) = 4
  /\ slept = 3
  /\ thrownKinds = {"UNKNOWN"}
  /\ result.status = "threw"
  /\ result.error.code = "UNKNOWN"
  /\ result.error.retryable
  /\ result.error.originalError.message = ApiKeyMessage

\* C16: generateReadmeWithFallback never throws the terminal "All fallback
\* models failed"; when the last model's generateReadme fails, with a retryable
\* error as with any other, that error is what it throws; and a retryable error
\* leaves it only from the last model, after every model was attempted.
C16_TerminalErrorUnreachable ==
  InFallback =>
    /\ (result.status = "threw") => (result.error # AllFailedError)
    /\ (modelIdx = Len(Models) /\ pc = "done" /\ ~lastOutcome.ok) =>
         result = Threw(lastOutcome.error)
    /\ (result.status = "threw" /\ Retryable(result.error)) =>
         /\ modelIdx = Len(Models)
         /\ Len(calls) = Len(Models) * (GenerateMaxRetries + 1)
         /\ \A j \in 1 .. Len(Models) : FailedLine(j) \in Range(console) <=> j < Len(Models)

\* all four models failed with retryable errors, sixteen calls in all
C16_Witness ==
  /\ InFallback
  /\ pc = "done"
  /\ modelIdx = Len(Models)
  /\ result.status = "threw"
  /\ Retryable(result.error)
  /\ Len(calls) = 16
  /\ Len(console) = 7

\* C17: an error is thrown on as it is: what withExponentialBackoff rethrows
\* when the retries are used up, and what generateReadmeWithFallback throws, is
\* the error the last attempt threw, with its code, retryable flag, message and
\* originalError.
C17_ErrorsPropagateUnchanged ==
  (entry \in {"withExponentialBackoff", "generateReadme", "generateReadmeWithFallback"}
   /\ result.status = "threw") =>
    /\ ~lastOutcome.ok
    /\ result.error = lastOutcome.error

\* generateReadme used up its retries on invalid documents
C17_Witness ==
  /\ InGenerate
  /\ result.status = "threw"
  /\ slept = 3
  /\ result.error.name = "ReadmeGenerationError"
  /\ result.error.code = "INVALID_OUTPUT"
  /\ result.error.retryable
  /\ lastOutcome.error.retryable

\* what a recipe puts into its document, counted from the recipe

\* the lines of one to three # followed by blanks and text: the heading lines
HeadingLineCount(r) == r.headings

\* the fence markers: a run of n backquotes holds n \div 3 of them
RECURSIVE MarkerCount(_, _)
MarkerCount(runs, i) ==
  IF i > Len(runs) THEN 0 ELSE runs[i] \div 3 + MarkerCount(runs, i + 1)

\* a phrase of the meta-commentary lies in the first 500 characters
PhraseInWindow(r, doc) == r.meta \in {"start", "capitals"} \/ (r.meta = "end" /\ Len(doc) <= 500)

\* C19: validateReadmeOutput makes all four checks and reports each one that
\* fails, once and in this order: the length is below 200, there are fewer
\* than 2 heading lines, the number of fence markers is odd, a phrase of
\* meta-commentary lies in the first 500 characters; valid is true exactly when
\* nothing is reported; the empty document is invalid and too short.
C19_AllChecksReported ==
  verdict.done =>
    /\ verdict.errors =
         (IF Len(document) < 200 THEN << TooShort >> ELSE << >>)
         \o (IF HeadingLineCount(recipe) < 2 THEN << MissingHeaders >> ELSE << >>)
         \o (IF MarkerCount(recipe.runs, 1) % 2 = 1 THEN << UnclosedBlock >> ELSE << >>)
         \o (IF PhraseInWindow(recipe, document) THEN << MetaDetected >> ELSE << >>)
    /\ verdict.valid <=> (verdict.errors = << >>)
    /\ (document = << >>) => (~verdict.valid /\ verdict.errors[1] = TooShort)

\* C20: validateReadmeOutput reports the unclosed code block exactly for the
\* documents with an odd number of fence markers, whatever their length,
\* headings and other content, and a document with an odd number is invalid.
C20_OddFencesReported ==
  verdict.done =>
    /\ (UnclosedBlock \in Range(verdict.errors)) <=> (MarkerCount(recipe.runs, 1) % 2 = 1)
    /\ (MarkerCount(recipe.runs, 1) % 2 = 1) => ~verdict.valid

\* a long document with headings, no meta-commentary and three fence markers
\* is invalid for the unclosed block alone
C20_Witness ==
  /\ verdict.done
  /\ recipe.runs = << 3, 3, 3 >>
  /\ recipe.headings = 2
  /\ recipe.meta = "none"
  /\ Len(document) >= 200
  /\ verdict.errors = << UnclosedBlock >>
  /\ ~verdict.valid

\* what holds of a request with the state l when it runs alone: its attempt
\* counter counts its own timers, its calls name its own model, its chunks are
\* those its stream yielded, and its result is that of its last attempt or its
\* own stream
RunsAsAlone(l) ==
  /\ \A i \in 1 .. Len(l.calls) : l.calls[i] = ModelName(l.config)
  /\ (l.entry = "none") => (l = LocalInit(l.config))
  /\ (l.entry = "generateReadme") =>
       /\ l.maxRetries = GenerateMaxRetries /\ l.baseDelay = GenerateBaseDelay
       /\ l.chunks = << >>
       /\ Len(l.sleeps) = l.slept
       /\ (l.pc = "operation") =>
            (l.attempt = Len(l.sleeps) /\ l.invocations = l.attempt
             /\ Len(l.calls) = l.invocations)
       /\ (l.pc = "run") =>
            (l.attempt = Len(l.sleeps) /\ l.invocations = l.attempt + 1
             /\ Len(l.calls) = l.invocations)
       /\ (l.pc = "sleep") =>
            (Len(l.sleeps) = l.attempt + 1 /\ l.invocations = l.attempt + 1)
       /\ (l.pc = "done") =>
            /\ l.invocations = l.attempt + 1
            /\ l.attempt = Len(l.sleeps)
            /\ l.result = (IF l.lastOutcome.ok THEN Returned(l.lastOutcome.value, "")
                           ELSE Threw(l.lastOutcome.error))
            /\ ~l.lastOutcome.ok => l.attempt = GenerateMaxRetries
  /\ (l.entry = "generateReadmeStreaming") =>
       /\ l.attempt = 0 /\ l.sleeps = << >> /\ l.slept = 0
       /\ Len(l.calls) <= 1
       /\ Len(l.chunks) = Len(l.yielded)
       /\ \A i \in 1 .. Len(l.yielded) : l.chunks[i] = ChunkText(l.yielded[i])
       /\ (l.pc = "done") => l.result = Returned(StripFences(ConcatTexts(l.yielded, 1)), "")

\* the request that runs can take a step of its own: one of the steps of
\* RequestStep is enabled (StreamEnds asks nothing but the position in the loop)
CanStep ==
  \/ ENABLED CallGenerateReadme
  \/ ENABLED InvokeClosure
  \/ ENABLED (\E resp \in ConcurrentResponses : ProviderResponds(resp))
  \/ ENABLED TimerFires
  \/ ENABLED CallGenerateReadmeStreaming(TRUE)
  \/ ENABLED StreamCall
  \/ ENABLED StreamRunSettles(StreamIterable)
  \/ pc = "streamIter"

\* C18: two requests in progress at once are independent. Each of them, the
\* one that runs and the suspended one, is at every moment as it would be
\* alone: its attempt count, its calls, its chunk sequence and its outcome come
\* from its own inputs. A request in a backoff sleep does not hold up the
\* other: at the sleep the other can be resumed, and while one sleeps the
\* other, unless it is done, can take its next step.
C18_RequestsAreIndependent ==
  /\ RunsAsAlone(Local)
  /\ RunsAsAlone(suspended)
  /\ (pc = "sleep") => ENABLED Switch
  /\ (suspended.pc = "sleep" /\ pc # "done") => CanStep

\* a streaming request has run to its end, chunks and all, with the other
\* request in its second backoff sleep
C18_Witness ==
  /\ entry = "generateReadmeStreaming"
  /\ pc = "done"
  /\ result.status = "returned"
  /\ Len(chunks) = 2
  /\ suspended.entry = "generateReadme"
  /\ suspended.pc = "sleep"
  /\ suspended.attempt = 1
  /\ Len(suspended.sleeps) = 2

\* how many times the piece occurs in the prompt
Occurrences(prompt, piece) == Cardinality({ i \in 1 .. Len(prompt) : prompt[i] = piece })

\* the place of the piece in the prompt, 0 when it is not there
Place(prompt, piece) ==
  IF Occurrences(prompt, piece) = 0 THEN 0
  ELSE Min({ i \in 1 .. Len(prompt) : prompt[i] = piece })

\* the clause of a flag
ClauseOf(name) ==
  CASE name = "includeArchitecture" -> ArchitectureClause
    [] name = "includeSecurity" -> SecurityClause
    [] name = "includeContributing" -> ContributingClause

\* the clauses of the three styles
StyleClauses == { styleAdditions[k] : k \in DOMAIN styleAdditions }

\* C21: buildSystemPrompt is deterministic and ordered. Two calls with the same
\* config return the same prompt. Every prompt returned starts with the base
\* text, then holds exactly one style clause, that of config.style or the
\* standard one when style is not set; after it come the architecture, security
\* and contributing clauses, in that order, each exactly once when its flag is
\* true and not at all otherwise; and it holds nothing else.
C21_PromptIsDeterministicAndOrdered ==
  /\ \A i, j \in 1 .. Len(built) :
       built[i].config = built[j].config => built[i].prompt = built[j].prompt
  /\ \A i \in 1 .. Len(built) :
       LET cfg == built[i].config
           prompt == built[i].prompt
           present == { n \in FlagNames : cfg[n] = "true" }
       IN  /\ prompt[1] = basePrompt[1]
           /\ Cardinality({ k \in 1 .. Len(prompt) : prompt[k] \in StyleClauses }) = 1
           /\ prompt[2] = (IF cfg.style = "" THEN styleAdditions.standard
                           ELSE styleAdditions[cfg.style])
           /\ \A n \in FlagNames :
                Occurrences(prompt, ClauseOf(n)) = (IF n \in present THEN 1 ELSE 0)
           /\ Len(prompt) = 2 + Cardinality(present)
           /\ \A m, n \in present :
                ( \/ (m = "includeArchitecture" /\ n # "includeArchitecture")
                  \/ (m = "includeSecurity" /\ n = "includeContributing") )
                => Place(prompt, ClauseOf(m)) < Place(prompt, ClauseOf(n))

\* the same config was passed twice, with all three flags true and no style
C21_Witness ==
  /\ Len(built) = 2
  /\ built[1].config = built[2].config
  /\ built[1].config.style = ""
  /\ \A n \in FlagNames : built[1].config[n] = "true"
  /\ Len(built[2].prompt) = 5

\* the prompt without the piece
RECURSIVE Without(_, _)
Without(prompt, piece) ==
  IF prompt = << >> THEN << >>
  ELSE (IF Head(prompt) = piece THEN << >> ELSE << Head(prompt) >>)
       \o Without(Tail(prompt), piece)

\* C22: toggling one flag changes the prompt by that flag's clause only. Of
\* two consecutive calls whose configs differ in one flag alone, when the flag
\* is true in one and not in the other, the prompt of the one holds the flag's
\* clause once and is, with that clause taken out, the prompt of the other (so
\* the style clause and the other flags' clauses are the same, in the same
\* order); when the flag is true in neither, the two prompts are the same.
C22_ToggleChangesOneClause ==
  \A i \in 1 .. Len(built) - 1 : \A n \in FlagNames :
    LET a == built[i]
        b == built[i + 1]
    IN  (a.config # b.config /\ [a.config EXCEPT ![n] = b.config[n]] = b.config) =>
          IF a.config[n] = "true"
          THEN /\ Occurrences(a.prompt, ClauseOf(n)) = 1
               /\ Without(a.prompt, ClauseOf(n)) = b.prompt
               /\ Occurrences(b.prompt, ClauseOf(n)) = 0
          ELSE IF b.config[n] = "true"
          THEN /\ Occurrences(b.prompt, ClauseOf(n)) = 1
               /\ Without(b.prompt, ClauseOf(n)) = a.prompt
               /\ Occurrences(a.prompt, ClauseOf(n)) = 0
          ELSE a.prompt = b.prompt

\* the architecture flag was switched off between two calls with the other two
\* flags true
C22_Witness ==
  /\ Len(built) = 2
  /\ built[1].config.includeArchitecture = "true"
  /\ built[2].config = [built[1].config EXCEPT !.includeArchitecture = "false"]
  /\ built[1].config.includeSecurity = "true"
  /\ built[1].config.includeContributing = "true"
  /\ Len(built[2].prompt) = 4

\* the payload has none of the three shapes: it is no string, and it is no
\* object with a content or with a choices[0].message.content
Unshaped(output) ==
  /\ output.type # "string"
  /\ ~output.content.present
  /\ ~(output.choices.present /\ Len(output.choices.items) > 0)

\* C23: the output parsing of generateReadme is total and prioritized. When
\* model.run resolves without an error, a string payload is the document as it
\* is, else the content of an object, else its choices[0].message.content; a
\* payload of none of these shapes is serialized whole, so that the document
\* validated is not empty; and whatever the payload, the attempt ends either
\* with the document returned or with the INVALID_OUTPUT of the validation,
\* never with another failure.
C23_NormalizationIsTotal ==
  [][\A resp \in Responses :
       (resp.kind = "fulfilled" /\ ~Truthy(resp.error) /\ ProviderResponds(resp)) =>
         LET output == resp.output
             parsed == NormalizeOutput(output)
         IN  /\ output.type = "string" => parsed = output.text
             /\ (output.type = "object" /\ Truthy(output.content)) =>
                  parsed = output.content.text
             /\ (output.type = "object" /\ ~output.content.present
                 /\ output.choices.present /\ Len(output.choices.items) > 0
                 /\ Len(output.choices.items[1]) > 0) =>
                  parsed = output.choices.items[1]
             /\ Unshaped(output) => parsed # << >>
             /\ \/ lastOutcome'.ok
                \/ Kind(lastOutcome'.error) = "INVALID_OUTPUT"]_vars

\* C24: with no credential configured, generateReadmeStreaming fails with
\* AuthError(retryable = false) before anything else happens: once it is called
\* it is done, the error is the missing-key AUTH_ERROR, model.run was not
\* called, nothing was awaited and onChunk was not invoked.
C24_StreamingWithoutCredential ==
  (InStreaming /\ ~hasKey) =>
    /\ pc = "done"
    /\ result = Threw(MissingKeyError)
    /\ result.error.code = "AUTH_ERROR" /\ ~result.error.retryable
    /\ keyChecks = 1
    /\ calls = << >>
    /\ response = NoResponse
    /\ yielded = << >> /\ chunks = << >>
    /\ caught = NoError
    /\ slept = 0 /\ warnings = << >>

\* generateReadmeStreaming was called with a callback and no credential
C24_Witness ==
  /\ InStreaming
  /\ ~hasKey
  /\ onChunk
  /\ pc = "done"
  /\ result.status = "threw"
  /\ result.error.code = "AUTH_ERROR"

\* C25: when the stream fails after k chunks, k >= 0, generateReadmeStreaming
\* has invoked onChunk exactly k times, with the texts of those chunks in
\* order, and invokes it no more; it returns no document; it fails with a
\* ReadmeGenerationError classified from the error the stream threw, which it
\* carries as originalError.
C25_StreamFailureAfterChunks ==
  /\ [](( InStreaming /\ ended = "threw") =>
          /\ pc = "done"
          /\ onChunk => Len(chunks) = Len(yielded)
          /\ ~onChunk => chunks = << >>
          /\ \A i \in 1 .. Len(chunks) : chunks[i] = ChunkText(yielded[i])
          /\ result.status = "threw"
          /\ result.value = << >>
          /\ caught \in StreamErrors
          /\ IsGenerationError(result.error)
          /\ result.error = ClassifyError(caught)
          /\ result.error.originalError = caught
          /\ result.error.retryable <=> (result.error.code \in {"RATE_LIMIT", "NETWORK_ERROR"})
          /\ warnings = << >>)
  /\ [][(InStreaming /\ ended = "threw") => (chunks' = chunks /\ result' = result)]_vars

\* the stream failed with a network error after two chunks, both handed to the
\* callback
C25_Witness ==
  /\ InStreaming
  /\ ended = "threw"
  /\ onChunk
  /\ Len(yielded) = 2
  /\ Len(chunks) = 2
  /\ chunks[1] = ChunkText(yielded[1])
  /\ result.status = "threw"
  /\ result.error.code = "NETWORK_ERROR"

\* C26: transient failures of the provider are retryable across models. When
\* model.run for a model that is not the last throws an error whose message
\* contains "rate limit" or "network" on every attempt, generateReadme for that
\* model fails with a RATE_LIMIT or NETWORK_ERROR marked retryable = true, and
\* generateReadmeWithFallback goes on to the next model instead of failing.
C26_TransientFailureFallsThrough ==
  [][\A resp \in Responses :
       ( /\ InFallback
         /\ modelIdx < Len(Models)
         /\ attempt = GenerateMaxRetries
         /\ thrownKinds = {"raw"}
         /\ resp.kind = "rejected"
         /\ \/ Includes(resp.reason.message, RateLimitWord)
            \/ Includes(resp.reason.message, NetworkWord)
         /\ ProviderResponds(resp) ) =>
         /\ IsGenerationError(lastOutcome'.error)
         /\ lastOutcome'.error.code \in {"RATE_LIMIT", "NETWORK_ERROR"}
         /\ lastOutcome'.error.retryable
         /\ pc' = "attempting"
         /\ modelIdx' = modelIdx + 1
         /\ result' = Pending]_vars

\* C27: generateReadmeWithFallback never changes the caller's config. The
\* config that generateReadme is called with for a model is a copy whose model
\* is that model, whatever model the caller set, and whose other fields are
\* the caller's; the calls to the provider name that model; and the caller's
\* config is the same after every step, to the end of the call.
C27_CallerConfigUntouched ==
  /\ [](InFallback =>
          /\ modelIdx \in 1 .. Len(Models)
          /\ callConfig.model = Models[modelIdx]
          /\ \A f \in DOMAIN config \ {"model"} : callConfig[f] = config[f]
          /\ DOMAIN callConfig = DOMAIN config
          /\ config \in Configs
          /\ pc = "run" => calls[Len(calls)] = Models[modelIdx])
  /\ [][config' = config]_vars

\* the caller had set a model and a style of its own; the first model failed
\* and the second returned the document
C27_Witness ==
  /\ InFallback
  /\ config.model = "custom/model"
  /\ config.style = "enterprise"
  /\ pc = "done"
  /\ result.status = "returned"
  /\ modelIdx = 2
  /\ callConfig.model = Models[2]
  /\ callConfig.style = "enterprise"
  /\ calls[Len(calls)] = Models[2]

\* the place of a model in the list
ModelIndex(name) == CHOOSE j \in 1 .. Len(Models) : Models[j] = name

\* C28: within one generateReadmeWithFallback call the models are tried in the
\* order of the list, none passed over and none tried again. The log shows one
\* attempt for each model up to the current one, in order, each but the
\* current one followed by its failure; the provider calls go through the
\* models in the same order, at most four for a model; and the loop moves from
\* a model only to the next one, and only when generateReadme for it has
\* ended with a retryable error.
C28_ModelsTriedInOrder ==
  /\ [](InFallback =>
          /\ modelIdx \in 1 .. Len(Models)
          /\ Len(console) = 2 * (modelIdx - 1) + (IF pc = "attempting" THEN 0 ELSE 1)
          /\ \A j \in 1 .. modelIdx :
               /\ (2 * j - 1 <= Len(console)) => console[2 * j - 1] = AttemptLine(j)
               /\ (j < modelIdx) => console[2 * j] = FailedLine(j)
          /\ \A i \in 1 .. Len(calls) :
               /\ ModelIndex(calls[i]) <= modelIdx
               /\ \A k \in i .. Len(calls) : ModelIndex(calls[i]) <= ModelIndex(calls[k])
          /\ \A j \in 1 .. Len(Models) :
               Cardinality({ i \in 1 .. Len(calls) : calls[i] = Models[j] })
                 <= GenerateMaxRetries + 1)
  /\ [][(InFallback /\ modelIdx' # modelIdx) =>
          /\ modelIdx' = modelIdx + 1
          /\ pc \in {"operation", "run"}
          /\ pc' = "attempting"
          /\ ~lastOutcome'.ok
          /\ Retryable(lastOutcome'.error)]_vars

\* the third model is being called after the first two failed, four calls each
C28_Witness ==
  /\ InFallback
  /\ modelIdx = 3
  /\ pc = "run"
  /\ Len(calls) = 9
  /\ calls[4] = Models[1] /\ calls[5] = Models[2] /\ calls[9] = Models[3]
  /\ console = << AttemptLine(1), FailedLine(1), AttemptLine(2), FailedLine(2),
                  AttemptLine(3) >>

\* C29: the recovery attempts are bounded and every call ends. generateReadme
\* makes at most 4 provider calls and sets at most 3 timers;
\* generateReadmeWithFallback makes at most 16 provider calls, 4 for each of
\* the 4 models, and sets at most 12 timers; and when every provider call
\* settles and every timer fires, a call of either of them is done in the
\* end, with a document returned or an error thrown.
C29_BoundedAndTerminating ==
  /\ [](InGenerate => (Len(calls) <= 4 /\ invocations <= 4 /\ slept <= 3))
  /\ [](InFallback =>
          /\ Len(calls) <= 16 /\ invocations <= 16 /\ slept <= 12
          /\ Len(calls) <= 4 * modelIdx /\ slept <= 3 * modelIdx)
  /\ ((InGenerate \/ InFallback) ~> (pc = "done" /\ result.status \in {"returned", "threw"}))

\* generateReadmeWithFallback came to its end with all sixteen provider calls
\* and all twelve timers used
C29_Witness ==
  /\ InFallback
  /\ pc = "done"
  /\ Len(calls) = 16
  /\ slept = 12
  /\ result.status = "threw"

\* C30: withExponentialBackoff stops at the first success. While it goes on,
\* every invocation so far has failed, and one timer was set after each of
\* them. When it returns, the value is that of the last invocation, the i-th,
\* which is the first to succeed, with 1 <= i <= maxRetries + 1; the operation
\* was invoked i times and there were i - 1 sleeps; and once it has returned,
\* the operation is not invoked and no timer is set again.
C30_StopsAtFirstSuccess ==
  /\ [](entry = "withExponentialBackoff" =>
          /\ (pc = "operation") => (Len(sleeps) = invocations /\ attempt = invocations)
          /\ (pc \in {"operation", "sleep"} /\ invocations > 0) => ~lastOutcome.ok
          /\ (pc = "sleep") => Len(sleeps) = invocations
          /\ (result.status = "returned") =>
               /\ pc = "done"
               /\ lastOutcome.ok
               /\ invocations \in 1 .. maxRetries + 1
               /\ result.value = << "v", invocations >>
               /\ Len(sleeps) = invocations - 1
               /\ slept = invocations - 1
               /\ attempt = invocations - 1)
  /\ [][(entry = "withExponentialBackoff" /\ pc = "done") =>
          (invocations' = invocations /\ sleeps' = sleeps /\ slept' = slept
           /\ result' = result)]_vars
  /\ [][(entry = "withExponentialBackoff" /\ invocations' = invocations + 1
          /\ invocations > 0) =>
          (Len(sleeps) = invocations /\ slept = invocations)]_vars

\* the operation failed twice and succeeded at its third invocation, two
\* sleeps between them, with one more retry left
C30_Witness ==
  /\ entry = "withExponentialBackoff"
  /\ maxRetries = 3
  /\ pc = "done"
  /\ result = Returned(<< "v", 3 >>, "")
  /\ invocations = 3
  /\ Len(sleeps) = 2

\* the text a response that did not fail carries: that of the string, of the
\* content or of the choices[0].message.content, or that of the chunks together
CarriedText ==
  IF response.kind = "iterable" THEN ConcatTexts(yielded, 1) ELSE response.text

\* C31: generateReadmeStreaming tolerates every shape of a response that does
\* not fail. For a string, an object with a content, an object with a
\* choices[0].message.content, or an async iterable that runs to its end, it
\* returns the text of the response, fences stripped and trimmed, as the
\* document, and hands that text to onChunk; a response that carries text
\* never gives an empty document.
C31_EveryShapeIsReturned ==
  ( /\ InStreaming
    /\ pc = "done"
    /\ response.kind \in {"string", "content", "other", "iterable"}
    /\ response.kind = "iterable" => ended = "completed"
    /\ response.kind # "iterable" => response.isString ) =>
      /\ result = Returned(StripFences(CarriedText), "")
      /\ (StripFences(CarriedText) # << >>) => result.value # << >>
      /\ onChunk =>
           IF response.kind = "iterable"
           THEN /\ Len(chunks) = Len(yielded)
                /\ \A i \in 1 .. Len(chunks) : chunks[i] = ChunkText(yielded[i])
           ELSE chunks = << response.text >>


\* --------------------------------------- the streaming GET route

DataPrefix == << "d", "a", "t", "a", ":", " " >>

EventEnd == << "\n", "\n" >>

ChunkKey == << "{", Quote, "c", "h", "u", "n", "k", Quote, ":" >>

DoneJson == << "{", Quote, "d", "o", "n", "e", Quote, ":", " ", "t", "r", "u", "e", "}" >>

ErrorKey == << "{", Quote, "e", "r", "r", "o", "r", Quote, ":", " " >>

\* the event the callback of the route writes for a chunk: the text of the
\* template around JSON.stringify({ chunk }), which the encoder turns into
\* bytes one character after the other
ChunkEvent(text) ==
  [type |-> "chunk",
   data |-> DataPrefix \o ChunkKey
            \o (IF text = NotAString THEN NotAString ELSE JsonString(text))
            \o << "}" >> \o EventEnd]

DoneEvent == [type |-> "done", data |-> DataPrefix \o DoneJson \o EventEnd]

\* the event of the catch: error.message between two quotes, as it is
ErrorEvent(err) ==
  [type |-> "error",
   data |-> DataPrefix \o ErrorKey \o << Quote >> \o err.message \o << Quote, "}" >>
            \o EventEnd]

\* what a write or a close on a writer whose stream has failed rejects with
WriterError == RawError(<< "The stream has failed" >>)

\* the writes asked of the writer, in the order of the calls: the callback asks
\* for its write before its first await, so within the call of onChunk, and the
\* block asks for its own once generateReadmeStreaming has settled
Requested == [i \in 1 .. Len(chunks) |-> ChunkEvent(chunks[i])] \o terminal

\* WriteCompletes that takes the write asked for last
WriteCompletesLatestFirst ==
  /\ writer = "open"
  /\ Len(wire) < Len(Requested)
  /\ wire' = Append(wire, Requested[Len(Requested)])
  /\ UNCHANGED << hasKey, config, entry, pc, maxRetries, baseDelay, attempt, modelIdx,
                  callConfig, invocations, keyChecks, calls, sleeps, slept, console,
                  lastOutcome, thrownKinds, result, streamVars, validateVars,
                  promptVars, routePc, terminal, writer, closes, suspended >>

\* the stream takes the next of the writes that wait in the queue of the writer
WriteCompletes ==
  /\ writer = "open"
  /\ Len(wire) < Len(Requested)
  /\ wire' = Append(wire, Requested[Len(wire) + 1])
  /\ UNCHANGED << hasKey, config, entry, pc, maxRetries, baseDelay, attempt, modelIdx,
                  callConfig, invocations, keyChecks, calls, sleeps, slept, console,
                  lastOutcome, thrownKinds, result, streamVars, validateVars,
                  promptVars, routePc, terminal, writer, closes, suspended >>

\* generateReadmeStreaming has returned: the block asks for the write of the
\* done event and awaits it
RouteSignalsDone ==
  /\ routePc = "generating"
  /\ pc = "done"
  /\ result.status = "returned"
  /\ terminal' = Append(terminal, DoneEvent)
  /\ routePc' = "tryWrite"
  /\ UNCHANGED << hasKey, config, entry, pc, maxRetries, baseDelay, attempt, modelIdx,
                  callConfig, invocations, keyChecks, calls, sleeps, slept, console,
                  lastOutcome, thrownKinds, result, streamVars, validateVars,
                  promptVars, wire, writer, closes, suspended >>

\* something awaited in the try has thrown, generateReadmeStreaming or a write
\* or the close on a stream that has failed: the catch asks for the write of the
\* error event and awaits it
RouteCatches ==
  /\ \/ routePc = "generating" /\ pc = "done" /\ result.status = "threw"
     \/ routePc \in {"tryWrite", "tryClose"} /\ writer = "errored"
  /\ terminal' = Append(terminal,
                        ErrorEvent(IF routePc = "generating" THEN result.error
                                   ELSE WriterError))
  /\ routePc' = "catchWrite"
  /\ UNCHANGED << hasKey, config, entry, pc, maxRetries, baseDelay, attempt, modelIdx,
                  callConfig, invocations, keyChecks, calls, sleeps, slept, console,
                  lastOutcome, thrownKinds, result, streamVars, validateVars,
                  promptVars, wire, writer, closes, suspended >>

\* the awaited write has completed, after all that were asked for before it:
\* the block goes on to the close
RouteWritten ==
  /\ routePc \in {"tryWrite", "catchWrite"}
  /\ writer = "open"
  /\ Len(wire) = Len(Requested)
  /\ routePc' = (IF routePc = "tryWrite" THEN "tryClose" ELSE "catchClose")
  /\ UNCHANGED << hasKey, config, entry, pc, maxRetries, baseDelay, attempt, modelIdx,
                  callConfig, invocations, keyChecks, calls, sleeps, slept, console,
                  lastOutcome, thrownKinds, result, streamVars, validateVars,
                  promptVars, terminal, wire, writer, closes, suspended >>

\* writer.close() closes the stream and the block ends
RouteCloses ==
  /\ routePc \in {"tryClose", "catchClose"}
  /\ writer = "open"
  /\ writer' = "closed"
  /\ closes' = closes + 1
  /\ routePc' = "finished"
  /\ UNCHANGED << hasKey, config, entry, pc, maxRetries, baseDelay, attempt, modelIdx,
                  callConfig, invocations, keyChecks, calls, sleeps, slept, console,
                  lastOutcome, thrownKinds, result, streamVars, validateVars,
                  promptVars, terminal, wire, suspended >>

\* the write or the close of the catch is rejected: the promise of the block is
\* rejected, and nothing awaits it
RouteRejects ==
  /\ routePc \in {"catchWrite", "catchClose"}
  /\ writer = "errored"
  /\ routePc' = "rejected"
  /\ UNCHANGED << hasKey, config, entry, pc, maxRetries, baseDelay, attempt, modelIdx,
                  callConfig, invocations, keyChecks, calls, sleeps, slept, console,
                  lastOutcome, thrownKinds, result, streamVars, validateVars,
                  promptVars, terminal, wire, writer, closes, suspended >>

\* the client goes away: the readable side is cancelled and the stream fails,
\* with the writes that waited; every later write or close is rejected
ClientAborts ==
  /\ writer = "open"
  /\ writer' = "errored"
  /\ UNCHANGED << hasKey, config, entry, pc, maxRetries, baseDelay, attempt, modelIdx,
                  callConfig, invocations, keyChecks, calls, sleeps, slept, console,
                  lastOutcome, thrownKinds, result, streamVars, validateVars,
                  promptVars, routePc, terminal, wire, closes, suspended >>

\* the configs the route can make of its style parameter
RouteConfigs ==
  { [EmptyConfig EXCEPT !.style = st,
                        !.includeArchitecture = IF st = "enterprise" THEN "true" ELSE "false"] :
      st \in Styles \ {""} }

\* the chunks of the streams the route is run on, a string and an object
RouteChunks == { StringChunk(FenceMarkdownLine \o Title), ObjectChunk(Usage) }

\* what these streams throw
RouteErrors == { RawError(RateLimitMessage), RawError(OtherMessage) }

\* the stream and its writer are there and the block is about to call
\* generateReadmeStreaming
InitRoute ==
  /\ hasKey \in BOOLEAN
  /\ config \in RouteConfigs
  /\ RequestInit
  /\ recipe = NoRecipe
  /\ document = << >>
  /\ verdict = NotValidated
  /\ promptConfig = EmptyConfig
  /\ built = << >>
  /\ routePc = "generating"
  /\ terminal = << >>
  /\ wire = << >>
  /\ writer = "open"
  /\ closes = 0
  /\ suspended = NoRequest

NextRoute ==
  \/ CallGenerateReadmeStreaming(TRUE)
  \/ StreamCall
  \/ \E resp \in StreamResponses : StreamRunSettles(resp)
  \/ \E chunk \in RouteChunks : StreamYields(chunk)
  \/ StreamEnds
  \/ \E err \in RouteErrors : StreamThrows(err)
  \/ WriteCompletes
  \/ RouteSignalsDone
  \/ RouteCatches
  \/ RouteWritten
  \/ RouteCloses
  \/ RouteRejects
  \/ ClientAborts

SpecRoute == InitRoute /\ [][NextRoute]_vars


\* --------------------------------------- the events of the GET route

\* how many of the events of seq end the stream of events
Terminals(seq) == Cardinality({ i \in 1 .. Len(seq) : seq[i].type # "chunk" })

\* the block of the route has ended, by its close or by a rejection
RouteOver == routePc \in {"finished", "rejected"}

\* the events on the response stream are those of the chunks handed to onChunk,
\* in the order of the fragments, then at most one terminal event, which comes
\* after every chunk event, and the writer is closed at most once and only
\* after the terminal event
WireInOrder ==
  /\ Len(wire) <= Len(chunks) + 1
  /\ \A i \in 1 .. Len(wire) :
       IF i <= Len(chunks)
       THEN /\ wire[i] = ChunkEvent(chunks[i])
            /\ response.kind = "iterable" => wire[i] = ChunkEvent(ChunkText(yielded[i]))
       ELSE /\ pc = "done"
            /\ wire[i] = (IF result.status = "returned" THEN DoneEvent
                          ELSE ErrorEvent(result.error))
  /\ Terminals(wire) <= 1
  /\ closes <= 1
  /\ closes = 1 => writer = "closed" /\ Terminals(wire) = 1 /\ routePc = "finished"

\* every event was written and the writer closed
WireComplete ==
  /\ Len(wire) = Len(chunks) + 1
  /\ Terminals(wire) = 1
  /\ closes = 1

\* C32 as it stands: in the streaming GET route, whose onChunk is asynchronous
\* and not awaited by generateReadmeStreaming, every chunk event is written to
\* the response stream in fragment order, exactly one terminal event (done or
\* error, never both) is written per request, after every chunk event, and the
\* writer is closed exactly once after the terminal event
C32_EveryRequestEndsWithTerminalAndClose ==
  routePc # "none" =>
    /\ WireInOrder
    /\ RouteOver => WireComplete

\* C32, amended: the events on the response stream are always the chunk events
\* in fragment order followed by at most one terminal event, never both, and
\* the writer is closed at most once and only after the terminal event; a
\* request whose stream stays writable ends with every chunk event, exactly one
\* terminal event and exactly one close, while a request whose client has gone
\* away ends with its block rejected, the writer not closed and the events that
\* were not yet written lost
C32_OrderedEventsAndCloseWhileWritable ==
  routePc # "none" =>
    /\ WireInOrder
    /\ routePc = "finished" => WireComplete
    /\ routePc = "rejected" => writer = "errored" /\ closes = 0
    /\ (RouteOver /\ writer # "errored") => routePc = "finished"

\* a stream of two fragments whose three events were written and whose writer
\* was closed, the second write asked for while the first could still wait
C32_Witness ==
  /\ routePc = "finished"
  /\ response.kind = "iterable"
  /\ Len(yielded) = 2
  /\ wire = << ChunkEvent(ChunkText(yielded[1])), ChunkEvent(ChunkText(yielded[2])),
               DoneEvent >>
  /\ closes = 1
  /\ writer = "closed"

====
